---- MODULE Spec2Model ----
(***************************************************************************)
(* Verification model of pygzctfapi's change-tracking and event-dispatch   *)
(* core: NoticeTracker (misc/trackers.py) over a storage                   *)
(* (misc/storages.py), and TrackerDispatcher (misc/dispatchers.py).        *)
(***************************************************************************)
EXTENDS Integers, Sequences, FiniteSets, TLC

(* ------------------------------ bounds -------------------------------- *)
MaxId == 3            \* notice ids are 1..MaxId
MaxLimit == 2         \* get_new(limit) is tried with limit in 0..MaxLimit
MaxThreshold == 2     \* errors_treshold is drawn from 1..MaxThreshold
MaxErrors == 3        \* poll cycles fail only while _errors < MaxErrors
MaxThreads == 2       \* start() creates at most MaxThreads Thread objects

Ids == 1 .. MaxId
Values == {"a", "b"}  \* the editable content of a notice (Notice.values)
Backends == {"memory", "bytes"}  \* InMemoryStorage / a ByteStorage subclass
TrackerIds == {1, 2}  \* tracker_id of the NoticeTracker instances
DefaultTrackerId == 1  \* tracker_id=1, the default of NoticeTracker.__init__
RouterIds == {1, 2}   \* the router objects of the application
Callers == {"main", "other"}  \* the application threads that call the dispatcher
ThreadIds == 1 .. MaxThreads
MaxDispatchId == 2    \* runs of the dispatcher see the notices 1..MaxDispatchId
MaxConcurrentId == 1  \* concurrent polls see the notices 1..MaxConcurrentId
PollThreads == {"p1", "p2"}      \* the threads that poll one tracker
EventEnums == {"NoticeEvents", "OtherEvents", "ClashEvents"}  \* the StrEnum classes
RouterEvents == {"notice.new", "unknown.event"}  \* the events the threads name
RouterEnums == {"NoticeEvents", "ClashEvents"}   \* the enums the threads add and remove
Handlers == {"h1", "h2"}         \* the callables the application registers
RouterThreads == {"t1", "t2"}    \* the threads that call a router

VARIABLES
    game_notices,  \* the notices the platform holds for the game (external)
    backend,       \* which storage class the trackers were given
    store,         \* the storage content: key -> value
    built,         \* the tracker ids whose NoticeTracker.__init__ has returned
    polled,        \* what the tracker's last call fetched, when it was a get_updates
    ret,           \* the last call made on a tracker, with what it returned
    seed           \* how each tracker was constructed, and what existed then

VARIABLE got      \* what the current run of get_new(limit=k) calls has returned

VARIABLES
    tracker_lock,  \* NoticeTracker._lock of the default tracker: its holder, or ""
    pollers,       \* the threads that call get_updates()/get_new() on that tracker
    view,          \* the notices as the returned get_updates() batches tell them
    worker         \* where the dispatcher's worker is inside the try of _run

pollVars == <<tracker_lock, pollers, view, worker>>

VARIABLES
    storage_class, \* the class of the storage the application opened by itself
    _store,         \* what that storage holds under each key (its dict, or its database)
    _is_closed,    \* close() was called on it (InMemoryStorage._is_closed)
    serves,        \* its connection serves commands (_get, _set, ping(), execute())
    ever_set,      \* the keys set() has stored since the storage was opened
    sret           \* the last call made on that storage, with what it returned

storageVars == <<storage_class, _store, _is_closed, serves, ever_set, sret>>

trackerVars == <<game_notices, backend, store, built, polled, ret, seed, got, pollVars,
                 storageVars>>

VARIABLES
    _trackers,            \* TrackerDispatcher._trackers: the registered trackers, in order
    _routers,             \* TrackerDispatcher._routers: the registered routers, in order
    _is_running,          \* BaseDispatcher._is_running
    _thread,              \* BaseDispatcher._thread: the last Thread created (0: not set)
    _errors,              \* TrackerDispatcher._errors
    _consecutive_errors,  \* TrackerDispatcher._consecutive_errors
    _errors_treshold,     \* TrackerDispatcher._errors_treshold
    threads,              \* the Thread objects start() created: where each one is
    callers,              \* the application threads: idle, or blocked in stop()'s join
    dret,                 \* the last call made on the dispatcher, with what it raised
    last_cycle,           \* how the last poll cycle of a worker ended
    streak                \* the failing poll cycles since the last successful one

dispatcherVars == <<_trackers, _routers, _is_running, _thread, _errors,
                    _consecutive_errors, _errors_treshold, threads, callers, dret,
                    last_cycle, streak>>
VARIABLES
    event_enums,   \* router.event_enums of each router: its list of namespaces
    _handlers,     \* router._handlers of each router: event -> list of handlers
    _lock,         \* router._lock of each router: the thread that holds it, or ""
    rthreads,      \* the application threads that call a router, and where they are
    rret           \* the Router call that returned or raised in the last step

routerVars == <<event_enums, _handlers, _lock, rthreads, rret>>

VARIABLE cycle     \* what the worker's last cycle polled and triggered

vars == <<trackerVars, dispatcherVars, routerVars, cycle>>

\* No cycle of the dispatcher's loop was the last step.
NoCycle == [batches |-> <<>>, triggered |-> <<>>, raised |-> "", ran |-> FALSE]

(* ------------------------------ models.py ------------------------------ *)
\* Notice is a dataclass (id, time, type, values); equality is by all fields.
\* time stands for the creation datetime, values for the editable content.
Notice(id, time, values) == [id |-> id, time |-> time, values |-> values]

\* Python's None where a Notice is expected (NoticeUpdate.new_notice/old_notice).
NoNotice == [id |-> 0, time |-> 0, values |-> "None"]

\* dataclasses.asdict(notice): a dict, here the set of its (key, value) items.
asdict(notice) ==
    {<<"id", notice.id, "">>, <<"time", notice.time, "">>, <<"values", 0, notice.values>>}

dict_get(data, key) == CHOOSE item \in data : item[1] = key

\* A from_dict that does not restore the time of the notice.
Notice_from_dict_no_time(data) ==
    Notice(dict_get(data, "id")[2], 0, dict_get(data, "values")[3])

\* BaseModel.from_dict: cls(**{key: data[key] for key in fields if key in data});
\* Notice.__post_init__ leaves a time that already is a datetime alone.
Notice_from_dict(data) ==
    Notice(dict_get(data, "id")[2], dict_get(data, "time")[2], dict_get(data, "values")[3])

(* ---------------------------- controllers.py --------------------------- *)
RECURSIVE sorted_by_id(_)
sorted_by_id(S) ==
    IF S = {} THEN <<>>
    ELSE LET first == CHOOSE x \in S : \A y \in S : x.id <= y.id
         IN  <<first>> \o sorted_by_id(S \ {first})

\* GameController.notices: the response's notices, sorted by id.
notices(response) == sorted_by_id(response)

(* ----------------------------- storages.py ----------------------------- *)
\* A stored value: Python's None (key absent), an int, or a list of dicts.
NoneValue == [tag |-> "None", int |-> 0, list |-> <<>>]
IntValue(n) == [tag |-> "int", int |-> n, list |-> <<>>]
ListValue(dicts) == [tag |-> "list", int |-> 0, list |-> dicts]

\* The keys NoticeTracker.__init__ builds for tracker_id t (one game is tracked).
lnid_key(t) == <<"NoticeTracker", t, "-Game", 1, "-LNID">>
nlist_key(t) == <<"NoticeTracker", t, "-Game", 1, "-NLIST">>
StorageKeys == {lnid_key(t) : t \in TrackerIds} \cup {nlist_key(t) : t \in TrackerIds}

\* ByteStorage.prepare_data: msgpack.packb(data) is called with no default= hook
\* and without datetime=True, so it raises on the datetime held by every notice
\* dict, and prepare_data turns that into ValueError. An int or an empty list packs.
prepare_data_raises(value) ==
    /\ value.tag = "list"
    /\ \E i \in 1 .. Len(value.list) : \E item \in value.list[i] : item[1] = "time"

\* storage.set(key, value): InMemoryStorage stores a deepcopy; a ByteStorage
\* stores the packed value, or raises ValueError from prepare_data.
set_raises(be, value) == be = "bytes" /\ prepare_data_raises(value)
storage_set(st, key, value) == [st EXCEPT ![key] = value]

\* storage.get(key): the value, None for a key that was never set.
storage_get(st, key) == st[key]

(* ----------------------- storages.py: the backends --------------------- *)
\* The four storage classes; all but InMemoryStorage are ByteStorage subclasses.
StorageClasses == {"InMemoryStorage", "SQLiteStorage", "LevelDBStorage", "RedisStorage"}
ByteStorages == StorageClasses \ {"InMemoryStorage"}
TestKeys == {"k1", "k2"}  \* the keys the application uses

\* A Python object: its type, its text when it is a scalar, its items when it is
\* a container (the items of a dict are its keys and values, key before value).
PyValue(type, atom, items) == [type |-> type, atom |-> atom, items |-> items]
PyNone == PyValue("NoneType", "None", <<>>)
PyTrue == PyValue("bool", "True", <<>>)
PyFalse == PyValue("bool", "False", <<>>)
PyBool(b) == IF b THEN PyTrue ELSE PyFalse

\* The values of the storage contract: None, True, 42, 2.5, "x", b"x",
\* [42, "x"] and {"x": [b"x"]}.
SupportedValues ==
    { PyNone, PyTrue,
      PyValue("int", "42", <<>>),
      PyValue("float", "2.5", <<>>),
      PyValue("str", "x", <<>>),
      PyValue("bytes", "x", <<>>),
      PyValue("list", "", <<PyValue("int", "42", <<>>), PyValue("str", "x", <<>>)>>),
      PyValue("dict", "",
              <<PyValue("str", "x", <<>>),
                PyValue("list", "", <<PyValue("bytes", "x", <<>>)>>)>>) }

\* Objects outside the contract: the tuple (42,), a datetime, and the int 2**70.
OtherValues ==
    { PyValue("tuple", "", <<PyValue("int", "42", <<>>)>>),
      PyValue("datetime", "2024-01-01", <<>>),
      PyValue("int", "2**70", <<>>) }
PyValues == SupportedValues \cup OtherValues

\* The types of the storage contract (StorageBaseClass.set's annotation, and
\* the bools and None its containers hold); an int is one of 64 bits.
ContractTypes == {"NoneType", "bool", "int", "float", "str", "bytes", "list", "dict"}
Beyond64Bits == {"2**70"}
RECURSIVE supported(_)
supported(value) ==
    /\ value.type \in ContractTypes
    /\ value.type = "int" => value.atom \notin Beyond64Bits
    /\ \A i \in 1 .. Len(value.items) : supported(value.items[i])

\* msgpack.packb(data): the format each Python type is written in. A tuple is
\* written as an array, like a list; an int beyond 64 bits raises OverflowError,
\* and a type with no format (a datetime) raises TypeError.
FormatTypes == {"NoneType", "bool", "int", "float", "str", "bytes", "list", "tuple", "dict"}
msgpack_format(type) ==
    CASE type = "NoneType" -> "nil"
      [] type = "bool" -> "boolean"
      [] type = "int" -> "integer"
      [] type = "float" -> "float 64"
      [] type = "str" -> "str"
      [] type = "bytes" -> "bin"
      [] type \in {"list", "tuple"} -> "array"
      [] type = "dict" -> "map"
RECURSIVE packb_raises(_)
packb_raises(data) ==
    \/ data.type \notin FormatTypes
    \/ data.type = "int" /\ data.atom \in Beyond64Bits
    \/ \E i \in 1 .. Len(data.items) : packb_raises(data.items[i])
RECURSIVE packb(_)
packb(data) ==
    PyValue(msgpack_format(data.type), data.atom,
            [i \in 1 .. Len(data.items) |-> packb(data.items[i])])

\* An unpackb(raw=True)-like reading, that gives bytes for the str format.
python_type_raw(format) ==
    CASE format = "nil" -> "NoneType"
      [] format = "boolean" -> "bool"
      [] format = "integer" -> "int"
      [] format = "float 64" -> "float"
      [] format \in {"str", "bin"} -> "bytes"
      [] format = "array" -> "list"
      [] format = "map" -> "dict"

\* msgpack.unpackb(value, strict_map_key=False): the Python type each format is
\* read as; the keys of a map may be of any type.
python_type(format) ==
    CASE format = "nil" -> "NoneType"
      [] format = "boolean" -> "bool"
      [] format = "integer" -> "int"
      [] format = "float 64" -> "float"
      [] format = "str" -> "str"
      [] format = "bin" -> "bytes"
      [] format = "array" -> "list"
      [] format = "map" -> "dict"
RECURSIVE unpackb(_)
unpackb(packed) ==
    PyValue(python_type(packed.type), packed.atom,
            [i \in 1 .. Len(packed.items) |-> unpackb(packed.items[i])])

\* What a storage holds under a key it does not have (dict.get's default, the
\* None of _get).
Absent == PyValue("", "absent", <<>>)
NothingStored == [key \in TestKeys |-> Absent]

\* A storage that keeps what it holds under a key when the key is removed.
key_kept(st, key) == st

\* del self._store[key], client.delete(key), db.delete(key), DELETE FROM storage.
key_deleted(st, key) == [st EXCEPT ![key] = Absent]

\* What a call does: what it raises ("" when it returns), what it returns, and
\* what the storage holds after it.
Outcome(raised, result, st) == [raised |-> raised, result |-> result, stored |-> st]

\* InMemoryStorage.get/set/unset/exists: each raises StorageOperationError on a
\* closed storage; set stores deepcopy(value), an object equal to value.
InMemoryStorage_call(op, st, closed, key, value) ==
    IF closed THEN Outcome("StorageOperationError", PyNone, st)
    ELSE CASE op = "get" -> Outcome("", IF st[key] = Absent THEN PyNone ELSE st[key], st)
           [] op = "set" -> Outcome("", PyNone, [st EXCEPT ![key] = value])
           [] op = "unset" ->
                 Outcome("", PyNone, IF st[key] # Absent THEN key_deleted(st, key) ELSE st)
           [] op = "exists" -> Outcome("", PyBool(st[key] # Absent), st)

\* ByteStorage.get/set/unset/exists: the backend's _get/_set/_unset run inside a
\* try that wraps whatever they raise into StorageOperationError; set's
\* prepare_data(value) runs before that try and raises ValueError.
ByteStorage_call(op, st, connected, key, value) ==
    CASE op = "get" ->
            IF ~connected THEN Outcome("StorageOperationError", PyNone, st)
            ELSE Outcome("", IF st[key] = Absent THEN PyNone ELSE unpackb(st[key]), st)
      [] op = "set" ->
            IF packb_raises(value) THEN Outcome("ValueError", PyNone, st)
            ELSE IF ~connected THEN Outcome("StorageOperationError", PyNone, st)
            ELSE Outcome("", PyNone, [st EXCEPT ![key] = packb(value)])
      [] op = "unset" ->
            IF ~connected THEN Outcome("StorageOperationError", PyNone, st)
            ELSE Outcome("", PyNone, key_deleted(st, key))
      [] op = "exists" ->
            IF ~connected THEN Outcome("StorageOperationError", PyNone, st)
            ELSE Outcome("", PyBool(st[key] # Absent), st)

\* No call was made on the storage yet.
NoStorageCall ==
    [op |-> "", key |-> "", value |-> PyNone, raised |-> "", result |-> PyNone,
     after |-> ""]

\* storage.get(key), storage.set(key, value), storage.unset(key) and
\* storage.exists(key), called by the application. The call remembers which
\* call on the same key returned just before it.
StorageCall(op, key, value) ==
    LET out == IF storage_class = "InMemoryStorage"
               THEN InMemoryStorage_call(op, _store, _is_closed, key, value)
               ELSE ByteStorage_call(op, _store, serves, key, value)
    IN  /\ _store' = out.stored
        /\ ever_set' = IF op = "set" /\ out.raised = "" THEN ever_set \cup {key} ELSE ever_set
        /\ sret' = [op |-> op, key |-> key,
                    value |-> IF op = "get" /\ sret.op = "set" THEN sret.value ELSE value,
                    raised |-> out.raised,
                    result |-> out.result,
                    after |-> IF sret.key = key /\ sret.raised = "" THEN sret.op ELSE ""]
        /\ UNCHANGED <<storage_class, _is_closed, serves>>
        /\ UNCHANGED <<game_notices, backend, store, built, polled, ret, seed, got, pollVars,
                       dispatcherVars, routerVars, cycle>>

\* storage.close(). InMemoryStorage clears and deletes its dict, and raises
\* StorageOperationError when it is closed already. SQLiteStorage and
\* LevelDBStorage close their connection, which then serves nothing.
\* RedisStorage calls client.close(), which disconnects the client's pool; the
\* calls made afterwards are served when the client connects again, and raise
\* redis.ConnectionError when it does not.
StorageClose ==
    /\ IF storage_class = "InMemoryStorage"
       THEN IF _is_closed
            THEN /\ sret' = [NoStorageCall EXCEPT !.op = "close",
                                                  !.raised = "StorageOperationError"]
                 /\ UNCHANGED <<_store, _is_closed, serves>>
            ELSE /\ sret' = [NoStorageCall EXCEPT !.op = "close"]
                 /\ _store' = NothingStored
                 /\ _is_closed' = TRUE
                 /\ serves' = FALSE
       ELSE /\ sret' = [NoStorageCall EXCEPT !.op = "close"]
            /\ _is_closed' = TRUE
            /\ serves' \in (IF storage_class = "RedisStorage" THEN BOOLEAN ELSE {FALSE})
            /\ UNCHANGED _store
    /\ UNCHANGED <<storage_class, ever_set>>
    /\ UNCHANGED <<game_notices, backend, store, built, polled, ret, seed, got, pollVars,
                   dispatcherVars, routerVars, cycle>>

\* storage.closed. InMemoryStorage: self._is_closed. LevelDBStorage:
\* self._db.closed. SQLiteStorage: True when execute("SELECT 1") raises
\* sqlite3.ProgrammingError, else False. RedisStorage: True when ping() returns,
\* False when it raises redis.ConnectionError or redis.TimeoutError.
closed(class, flag, connected) ==
    CASE class \in {"InMemoryStorage", "LevelDBStorage"} -> flag
      [] class = "SQLiteStorage" -> ~connected
      [] class = "RedisStorage" -> connected

\* The application reads storage.closed.
StorageClosed ==
    /\ sret' = [NoStorageCall EXCEPT
                   !.op = "closed",
                   !.result = PyBool(closed(storage_class, _is_closed, serves))]
    /\ UNCHANGED <<storage_class, _store, _is_closed, serves, ever_set>>
    /\ UNCHANGED <<game_notices, backend, store, built, polled, ret, seed, got, pollVars,
                   dispatcherVars, routerVars, cycle>>

(* ------------------------------- utils.py ------------------------------ *)
\* A list_diff that finds no common element.
list_diff_no_common(list1, list2) ==
    [common |-> {}, unique1 |-> list1 \ list2, unique2 |-> list2 \ list1]

\* list_diff(list1, list2), on the key sets of the two dicts.
list_diff(list1, list2) ==
    [common |-> list1 \cap list2, unique1 |-> list1 \ list2, unique2 |-> list2 \ list1]

(* ------------------------------ updates.py ----------------------------- *)
\* NoticeEvents: the event of a NoticeUpdate.
NoticeEvents_NEW == "notice.new"
NoticeEvents_EDITED == "notice.edited"
NoticeEvents_DELETED == "notice.deleted"

\* NoticeUpdate as get_updates builds it: NoticeUpdate(event=..., new_notice=...,
\* old_notice=...); None is NoNotice. (updates.py names the first field
\* update_type; trackers.py writes and reads it as `event`.)
NoticeUpdate(event, new_notice, old_notice) ==
    [event |-> event, new_notice |-> new_notice, old_notice |-> old_notice]

\* NoticeUpdate.id: the old notice's id for a deleted update, else the new one's.
update_id(update) ==
    IF update.event = NoticeEvents_DELETED THEN update.old_notice.id ELSE update.new_notice.id

(* ------------------------------ trackers.py ---------------------------- *)
\* The outcomes of self._game.notices(): the list, RequestFailedError from
\* Raiser.raise_for_status (a GZException), or an error of the HTTP client.
FetchOutcomes == {"ok", "RequestFailedError", "ConnectError"}

\* NoticeTracker.last_nid (getter): the stored cursor, 0 when none is stored.
last_nid(st, t) ==
    LET notice_id == storage_get(st, lnid_key(t))
    IN  IF notice_id.tag = "None" THEN 0 ELSE notice_id.int

\* NoticeTracker._old_notices (getter): the stored dicts as Notice objects.
old_notices_of(st, t) ==
    LET stored == storage_get(st, nlist_key(t))
        dicts == IF stored.tag = "None" THEN <<>> ELSE stored.list
    IN  [i \in 1 .. Len(dicts) |-> Notice_from_dict(dicts[i])]

\* NoticeTracker._old_notices (setter): the value handed to storage.set.
snapshot_value(new_notices) ==
    ListValue([i \in 1 .. Len(new_notices) |-> asdict(new_notices[i])])

\* {notice.id: notice for notice in notice_list}: the last notice of an id wins.
as_dict(notice_list) ==
    [k \in {notice_list[i].id : i \in 1 .. Len(notice_list)} |->
        LET last == CHOOSE i \in 1 .. Len(notice_list) :
                        /\ notice_list[i].id = k
                        /\ \A j \in 1 .. Len(notice_list) : notice_list[j].id = k => j <= i
        IN  notice_list[last]]

\* The elements of a set of ids as a list (the order the loops visit them in;
\* the batch is sorted afterwards).
RECURSIVE ids_list(_)
ids_list(S) ==
    IF S = {} THEN <<>>
    ELSE LET least == CHOOSE x \in S : \A y \in S : x <= y
         IN  <<least>> \o ids_list(S \ {least})

\* The loop over diff.common: an edited update where the two notices differ.
RECURSIVE edited_updates(_, _, _)
edited_updates(common, new_as_dict, old_as_dict) ==
    IF common = <<>> THEN <<>>
    ELSE LET id == Head(common)
             rest == edited_updates(Tail(common), new_as_dict, old_as_dict)
         IN  IF new_as_dict[id] # old_as_dict[id]
             THEN <<NoticeUpdate(NoticeEvents_EDITED, new_as_dict[id], old_as_dict[id])>> \o rest
             ELSE rest

\* The loop over diff.unique1: a new update for each.
new_updates(unique1, new_as_dict) ==
    [i \in 1 .. Len(unique1) |-> NoticeUpdate(NoticeEvents_NEW, new_as_dict[unique1[i]], NoNotice)]

\* The loop over diff.unique2: a deleted update for each.
deleted_updates(unique2, old_as_dict) ==
    [i \in 1 .. Len(unique2) |-> NoticeUpdate(NoticeEvents_DELETED, NoNotice, old_as_dict[unique2[i]])]

\* The batch left in the order the three loops built it.
sort_updates_skipped(updates) == updates

\* updates.sort(key=lambda update: update.id)
sort_updates(updates) == SortSeq(updates, LAMBDA u1, u2 : update_id(u1) < update_id(u2))

\* The batch get_updates builds from the fetch and the stored snapshot.
updates_batch(new_notices, old_notices) ==
    LET new_as_dict == as_dict(new_notices)
        old_as_dict == as_dict(old_notices)
        diff == list_diff(DOMAIN new_as_dict, DOMAIN old_as_dict)
    IN  sort_updates(edited_updates(ids_list(diff.common), new_as_dict, old_as_dict)
                     \o new_updates(ids_list(diff.unique1), new_as_dict)
                     \o deleted_updates(ids_list(diff.unique2), old_as_dict))

\* A cursor set to the id of the first notice of the list.
advance_cursor_first(st, t, new_notices) ==
    IF Len(new_notices) # 0
    THEN storage_set(st, lnid_key(t), IntValue(new_notices[1].id))
    ELSE st

\* "if len(new_notices) != 0: self.last_nid = new_notices[-1].id"
advance_cursor(st, t, new_notices) ==
    IF Len(new_notices) # 0
    THEN storage_set(st, lnid_key(t), IntValue(new_notices[Len(new_notices)].id))
    ELSE st

\* NoticeTracker.get_updates on storage content st, the fetch having returned
\* new_notices: the content it leaves, the exception it raises ("" for none) and
\* the batch it returns. The cursor is written before the snapshot.
get_updates_call(st, be, t, new_notices) ==
    LET updates == updates_batch(new_notices, old_notices_of(st, t))
        st1 == advance_cursor(st, t, new_notices)
        snapshot == snapshot_value(new_notices)
    IN  IF set_raises(be, snapshot)
        THEN [store |-> st1, raised |-> "ValueError", updates |-> <<>>]
        ELSE [store |-> storage_set(st1, nlist_key(t), snapshot), raised |-> "",
              updates |-> updates]

\* new_notices[-limit:]: the last notices of the list instead of the first.
truncate_last(new_notices, limit) ==
    [i \in 1 .. (IF limit < Len(new_notices) THEN limit ELSE Len(new_notices)) |->
        new_notices[Len(new_notices) - (IF limit < Len(new_notices) THEN limit
                                        ELSE Len(new_notices)) + i]]

\* new_notices[:limit] for a limit that is given (limit >= 0).
truncate(new_notices, limit) ==
    [i \in 1 .. (IF limit < Len(new_notices) THEN limit ELSE Len(new_notices)) |->
        new_notices[i]]

\* The notices get_new returns: those of the fetch above the cursor, truncated.
new_notices_since(fetched, lnid, has_limit, limit) ==
    LET above == SelectSeq(fetched, LAMBDA notice : notice.id > lnid)
    IN  IF has_limit THEN truncate(above, limit) ELSE above

\* A get_new that sets the cursor to the highest id of the fetch.
get_new_call_highest(st, t, fetched, has_limit, limit) ==
    [store |-> advance_cursor(st, t, fetched), raised |-> "",
     returned |-> new_notices_since(fetched, last_nid(st, t), has_limit, limit)]

\* A get_new that also stores the fetch as the snapshot.
get_new_call_with_snapshot(st, t, fetched, has_limit, limit) ==
    [store |-> storage_set(advance_cursor(st, t, fetched), nlist_key(t),
                           snapshot_value(fetched)),
     raised |-> "",
     returned |-> new_notices_since(fetched, last_nid(st, t), has_limit, limit)]

\* NoticeTracker.get_new on storage content st.
get_new_call(st, t, fetched, has_limit, limit) ==
    LET new_notices == new_notices_since(fetched, last_nid(st, t), has_limit, limit)
    IN  [store |-> advance_cursor(st, t, new_notices), raised |-> "",
         returned |-> new_notices]

\* The run of get_new(limit=k) calls (k >= 1) that returned one after another
\* with no other call on the tracker and no change of the platform's notices in
\* between: the cursor the run began with and the ids it has returned so far.
\* Runs are followed only where `on` is set.
NoRun(on) == [on |-> on, running |-> FALSE, from |-> 0, ids |-> <<>>]
one_more_call(run, lnid, returned) ==
    [on |-> TRUE, running |-> TRUE,
     from |-> IF run.running THEN run.from ELSE lnid,
     ids |-> (IF run.running THEN run.ids ELSE <<>>)
                \o [i \in 1 .. Len(returned) |-> returned[i].id]]

\* What is recorded of the last call on a tracker: the call, the storage content
\* it started from, the fetch it saw, and what it raised or returned.
\* `repeat`: the call before it on this tracker was a get_updates that returned,
\* and its fetch returned the same notices.
Call(op, t, raised, fetched, st, updates, returned, has_limit, limit) ==
    [op |-> op, tracker |-> t, raised |-> raised, fetched |-> fetched,
     old_lnid |-> last_nid(st, t), old_notices |-> old_notices_of(st, t),
     old_store |-> st,
     repeat |-> polled[t].valid /\ polled[t].fetched = fetched,
     updates |-> updates, returned |-> returned,
     has_limit |-> has_limit, limit |-> limit]
NoCall == [op |-> "", tracker |-> 0, raised |-> "", fetched |-> <<>>,
           old_lnid |-> 0, old_notices |-> <<>>,
           old_store |-> [key \in StorageKeys |-> NoneValue], repeat |-> FALSE,
           updates |-> <<>>, returned |-> <<>>, has_limit |-> FALSE, limit |-> 0]
NotPolled == [valid |-> FALSE, fetched |-> <<>>]
Polled(fetched) == [valid |-> TRUE, fetched |-> fetched]

\* The worker's place inside the try of _run: pc ("" outside the try), the
\* trackers still to poll, the trackers whose NoticeTracker._lock it holds, the
\* batch get_updates() is about to return, the events of the batch still to
\* pass on and the routers still to trigger for the first of them. Remembered
\* with it, in the runs that keep this history (remember): the storage as the
\* cycle found it, the updates of the batches that get_updates() returned in
\* this cycle, and the updates of the batches of aborted cycles (until the
\* platform's notices change).
NotInTry ==
    [pc |-> "", trackers |-> <<>>, locked |-> {}, returning |-> <<>>, events |-> <<>>,
     routers |-> <<>>, remember |-> FALSE, found |-> <<>>, polls |-> {},
     aborted_updates |-> {}]
platform_changed(w) == [w EXCEPT !.aborted_updates = {}]

(* ------------------------- the external platform ----------------------- *)
\* The platform gains a notice (its time is fixed at creation).
PlatformAdd(id, values) ==
    /\ \A notice \in game_notices : notice.id # id
    /\ game_notices' = game_notices \cup {Notice(id, id, values)}
    /\ ret' = NoCall
    /\ cycle' = NoCycle
    /\ got' = NoRun(got.on)
    /\ worker' = platform_changed(worker)
    /\ UNCHANGED <<backend, storageVars, store, built, polled, seed, tracker_lock, pollers, view, dispatcherVars, routerVars>>

\* A notice of the platform is edited.
PlatformEdit(id, values) ==
    /\ \E notice \in game_notices :
          /\ notice.id = id
          /\ notice.values # values
          /\ game_notices' = (game_notices \ {notice}) \cup {Notice(id, notice.time, values)}
    /\ ret' = NoCall
    /\ cycle' = NoCycle
    /\ got' = NoRun(got.on)
    /\ worker' = platform_changed(worker)
    /\ UNCHANGED <<backend, storageVars, store, built, polled, seed, tracker_lock, pollers, view, dispatcherVars, routerVars>>

\* A notice of the platform is deleted.
PlatformDelete(id) ==
    /\ \E notice \in game_notices :
          /\ notice.id = id
          /\ game_notices' = game_notices \ {notice}
    /\ seed' = [t \in TrackerIds |-> [seed[t] EXCEPT !.existing = @ \ {id}]]
    /\ ret' = NoCall
    /\ cycle' = NoCycle
    /\ got' = NoRun(got.on)
    /\ worker' = platform_changed(worker)
    /\ UNCHANGED <<backend, storageVars, store, built, polled, tracker_lock, pollers, view, dispatcherVars, routerVars>>

(* --------------------------- tracker operations ------------------------ *)
\* What is remembered of a tracker's construction, in the runs that keep this
\* history (on): whether the storage held no cursor and ignore_old_notices was
\* given ("ignored") or not ("kept"), the ids of the notices that existed then
\* and have not been deleted since, and the number of get_updates() calls of the
\* application that have returned (counted up to two).
NotConstructed(on) == [on |-> on, mode |-> "", existing |-> {}, polls |-> 0]
Constructed(ignore_old_notices, st, t) ==
    [on |-> TRUE,
     mode |-> IF storage_get(st, lnid_key(t)).tag # "None" THEN "seeded"
              ELSE IF ignore_old_notices THEN "ignored" ELSE "kept",
     existing |-> {notice.id : notice \in game_notices},
     polls |-> 0]
one_more_poll(seeded) ==
    [seeded EXCEPT !.polls = IF seeded.on /\ seeded.mode # "" /\ @ < 2 THEN @ + 1 ELSE @]

\* A constructor that never polls.
polls_on_init_never(ignore_old_notices, cursor) == FALSE

\* "if ignore_old_notices and self._storage.get(self._lnid_key) is None"
polls_on_init(ignore_old_notices, cursor) == ignore_old_notices /\ cursor.tag = "None"

\* NoticeTracker.__init__(game, storage, ignore_old_notices, tracker_id=t): with
\* ignore_old_notices and no stored cursor it calls get_updates() once; an
\* exception of that call leaves no tracker object.
NoticeTracker_init(t, ignore_old_notices, outcome) ==
    /\ t \notin built
    /\ cycle' = NoCycle
    /\ got' = NoRun(got.on)
    /\ UNCHANGED <<game_notices, backend, storageVars, pollVars, dispatcherVars, routerVars>>
    /\ IF polls_on_init(ignore_old_notices, storage_get(store, lnid_key(t)))
       THEN IF outcome # "ok"
            THEN /\ ret' = Call("__init__", t, outcome, <<>>, store, <<>>, <<>>, FALSE, 0)
                 /\ UNCHANGED <<store, built, polled>>
            ELSE LET fetched == notices(game_notices)
                     r == get_updates_call(store, backend, t, fetched)
                 IN  /\ store' = r.store
                     /\ built' = IF r.raised = "" THEN built \cup {t} ELSE built
                     /\ polled' = [polled EXCEPT ![t] =
                                      IF r.raised = "" THEN Polled(fetched) ELSE NotPolled]
                     /\ ret' = Call("__init__", t, r.raised, fetched, store, <<>>, <<>>,
                                    FALSE, 0)
       ELSE /\ built' = built \cup {t}
            /\ ret' = Call("__init__", t, "", <<>>, store, <<>>, <<>>, FALSE, 0)
            /\ UNCHANGED <<store, polled>>
    /\ seed' = IF t \in built' /\ seed[t].on
               THEN [seed EXCEPT ![t] = Constructed(ignore_old_notices, store, t)]
               ELSE seed

\* The process that built tracker t ends: the tracker object is gone, and what
\* it wrote to the storage stays ("To keep tracking changes after restarts, use
\* Redis, LevelDB, or SQLite storages"; an InMemoryStorage object can be handed
\* to a second tracker in the same way).
TrackerDropped(t) ==
    /\ t \in built
    /\ built' = built \ {t}
    /\ polled' = [polled EXCEPT ![t] = NotPolled]
    /\ ret' = NoCall
    /\ cycle' = NoCycle
    /\ got' = NoRun(got.on)
    /\ UNCHANGED <<game_notices, backend, storageVars, store, seed, pollVars, dispatcherVars, routerVars>>

\* tracker.get_updates(), called by the application.
GetUpdates(t, outcome) ==
    /\ t \in built
    /\ cycle' = NoCycle
    /\ got' = NoRun(got.on)
    /\ UNCHANGED <<game_notices, backend, storageVars, built, pollVars, dispatcherVars, routerVars>>
    /\ IF outcome # "ok"
       THEN /\ ret' = Call("get_updates", t, outcome, <<>>, store, <<>>, <<>>, FALSE, 0)
            /\ polled' = [polled EXCEPT ![t] = NotPolled]
            /\ UNCHANGED <<store, seed>>
       ELSE LET fetched == notices(game_notices)
                r == get_updates_call(store, backend, t, fetched)
            IN  /\ store' = r.store
                /\ seed' = IF r.raised = "" THEN [seed EXCEPT ![t] = one_more_poll(@)]
                           ELSE seed
                /\ polled' = [polled EXCEPT ![t] =
                                 IF r.raised = "" THEN Polled(fetched) ELSE NotPolled]
                /\ ret' = Call("get_updates", t, r.raised, fetched, store, r.updates, <<>>,
                               FALSE, 0)

\* tracker.get_new(limit), called by the application (limit=None: has_limit false).
GetNew(t, has_limit, limit, outcome) ==
    /\ t \in built
    /\ cycle' = NoCycle
    /\ UNCHANGED <<game_notices, backend, storageVars, built, seed, pollVars, dispatcherVars, routerVars>>
    /\ polled' = [polled EXCEPT ![t] = NotPolled]
    /\ IF outcome # "ok"
       THEN /\ ret' = Call("get_new", t, outcome, <<>>, store, <<>>, <<>>, has_limit, limit)
            /\ UNCHANGED store
       ELSE LET fetched == notices(game_notices)
                r == get_new_call(store, t, fetched, has_limit, limit)
            IN  /\ store' = r.store
                /\ ret' = Call("get_new", t, r.raised, fetched, store, <<>>, r.returned,
                               has_limit, limit)
    /\ got' = IF got.on /\ outcome = "ok" /\ has_limit /\ limit >= 1
              THEN one_more_call(got, last_nid(store, t),
                                 get_new_call(store, t, notices(game_notices), has_limit,
                                              limit).returned)
              ELSE NoRun(got.on)

(* ------------------ concurrent calls on one tracker -------------------- *)
\* A thread that is in no call on the tracker.
IdlePoller ==
    [pc |-> "idle", op |-> "", fetched |-> <<>>, seen |-> [key \in StorageKeys |-> NoneValue]]

\* A lock that every thread finds free.
lock_is_free_always(holder) == TRUE

\* threading.Lock: "with self._lock" is entered when no thread holds the lock.
lock_is_free(holder) == holder = ""

\* A thread calls get_updates() or get_new() and comes to "with self._lock".
PollCall(th, op) ==
    /\ DefaultTrackerId \in built
    /\ pollers[th].pc = "idle"
    /\ pollers' = [pollers EXCEPT ![th] = [IdlePoller EXCEPT !.pc = "waiting", !.op = op]]
    /\ cycle' = NoCycle
    /\ UNCHANGED <<game_notices, backend, storageVars, got, store, built, polled, ret, seed, tracker_lock, view, worker,
                   dispatcherVars, routerVars>>

\* The thread enters the with block, fetches (self._game.notices()) and reads
\* the storage: the cursor in get_new, the snapshot in get_updates.
PollRead(th) ==
    /\ pollers[th].pc = "waiting"
    /\ lock_is_free(tracker_lock)
    /\ tracker_lock' = th
    /\ pollers' = [pollers EXCEPT ![th].pc = "holding",
                                  ![th].fetched = notices(game_notices),
                                  ![th].seen = store]
    /\ cycle' = NoCycle
    /\ UNCHANGED <<game_notices, backend, storageVars, got, store, built, polled, ret, seed, view, worker,
                   dispatcherVars, routerVars>>

\* The notices the application knows of once it has taken in a batch, and
\* whether every batch so far fitted what it knew: a new update of an unknown id,
\* an edited or deleted update of the notice as it was known.
take_in(known, updates) ==
    LET range == {updates[k] : k \in 1 .. Len(updates)}
        gone == {update.old_notice : update \in {u \in range : u.event # NoticeEvents_NEW}}
        come == {update.new_notice : update \in {u \in range : u.event # NoticeEvents_DELETED}}
    IN  [notices |-> (known.notices \ gone) \cup come,
         clean |-> /\ known.clean
                   /\ gone \subseteq known.notices
                   /\ \A update \in range :
                         update.event = NoticeEvents_NEW =>
                            \A notice \in known.notices : notice.id # update.new_notice.id]

\* The rest of the call: the batch or the list is built from what was read, the
\* cursor (and in get_updates the snapshot) is written, the with block ends and
\* the call returns.
PollWrite(th) ==
    LET t == DefaultTrackerId
        r == IF pollers[th].op = "get_updates"
             THEN get_updates_call(pollers[th].seen, backend, t, pollers[th].fetched)
             ELSE get_new_call(pollers[th].seen, t, pollers[th].fetched, FALSE, 0)
        written == {key \in StorageKeys : r.store[key] # pollers[th].seen[key]}
    IN  /\ pollers[th].pc = "holding"
        /\ store' = [key \in StorageKeys |->
                        IF key \in written THEN r.store[key] ELSE store[key]]
        /\ view' = IF pollers[th].op = "get_updates" /\ r.raised = ""
                   THEN take_in(view, r.updates) ELSE view
        /\ tracker_lock' = ""
        /\ pollers' = [pollers EXCEPT ![th] = IdlePoller]
        /\ cycle' = NoCycle
        /\ got' = NoRun(got.on)
        /\ UNCHANGED <<game_notices, backend, storageVars, built, polled, ret, seed, worker,
                       dispatcherVars, routerVars>>

(* ----------------------------- exceptions.py --------------------------- *)
\* The exception classes derived from GZException, among those the model raises.
is_GZException(exc) == exc \in {"RequestFailedError", "StorageOperationError"}

\* "x in list".
in_list(list, x) == \E i \in 1 .. Len(list) : list[i] = x
\* list.remove(x); the lists hold no element twice (add_* rejects a duplicate).
list_remove(list, x) == SelectSeq(list, LAMBDA y : y # x)

(* ------------------------------ routers.py ----------------------------- *)
\* set(enum): the members of a StrEnum class. NoticeEvents is the library's; the
\* other two are enums of the application, one of which shares a member with it.
members(enum) ==
    CASE enum = "NoticeEvents" -> {NoticeEvents_NEW, NoticeEvents_EDITED, NoticeEvents_DELETED}
      [] enum = "OtherEvents" -> {"other.ping"}
      [] enum = "ClashEvents" -> {NoticeEvents_NEW, "clash.pong"}

\* NoticeEvents(value): the member of the enum with that value.
NoticeEvents(value) == CHOOSE member \in members("NoticeEvents") : member = value

\* The events a router routes: the members of its namespaces.
router_events(r) == UNION {members(event_enums[r][i]) : i \in 1 .. Len(event_enums[r])}

\* "self._handlers.update({k: list() for k in enum})"
handlers_update(handlers, enum) ==
    [event \in DOMAIN handlers \cup members(enum) |->
        IF event \in members(enum) THEN <<>> ELSE handlers[event]]

\* The loop of Router.__init__ over the enums from position i on: the exception
\* it raises ("" for none) and the _handlers it has built.
RECURSIVE init_handlers(_, _, _)
init_handlers(enums, i, handlers) ==
    IF i > Len(enums) THEN [raised |-> "", _handlers |-> handlers]
    ELSE IF members(enums[i]) \cap DOMAIN handlers # {}
    THEN [raised |-> "EventsIntersectionError", _handlers |-> handlers]
    ELSE init_handlers(enums, i + 1, handlers_update(handlers, enums[i]))

\* Router(*event_enums): the exception the constructor raises, or the fields of
\* the router it returns.
Router_init(enums) ==
    LET built_handlers == init_handlers(enums, 1, <<>>)
    IN  [raised |-> built_handlers.raised, event_enums |-> enums,
         _handlers |-> built_handlers._handlers]

\* A thread that is in no call on a router.
IdleThread ==
    [pc |-> "idle", op |-> "", router |-> 0, event |-> "", enum |-> "", handler |-> "",
     flag |-> FALSE, found |-> FALSE, seen |-> <<>>, invoked |-> <<>>]

\* A call of thread t that has ended: what it was, whether the event was a key
\* of self._handlers when the call tested it, the exception ("" for a return),
\* the handler list it read and the handlers it invoked.
RouterReturn(t, found, raised, seen, invoked) ==
    [op |-> rthreads[t].op, router |-> rthreads[t].router,
     event |-> rthreads[t].event, enum |-> rthreads[t].enum,
     handler |-> rthreads[t].handler, flag |-> rthreads[t].flag,
     found |-> found, raised |-> raised, seen |-> seen, invoked |-> invoked]
NoRouterReturn ==
    [op |-> "", router |-> 0, event |-> "", enum |-> "", handler |-> "",
     flag |-> FALSE, found |-> FALSE, raised |-> "", seen |-> <<>>, invoked |-> <<>>]

\* The methods that take self._lock.
LockedOps == {"add_handler", "remove_handler", "clear_handlers", "get_handlers",
              "trigger_event"}
\* The call has a handler argument and a raise_on_* flag.
takes_handler(op) == op \in {"add_handler", "remove_handler"}

\* "with self._lock:" of a call op(handler, event, raise_on_*=flag) (of
\* op(event) for the methods without a handler): the thread enters when the
\* lock is free. Router.handle(event)(handler) is add_handler(handler, event).
AcquireLock(t, r, op, event, handler, flag) ==
    /\ rthreads[t].pc = "idle"
    /\ _lock[r] = ""
    /\ takes_handler(op) \/ (handler = "" /\ flag = FALSE)
    /\ _lock' = [_lock EXCEPT ![r] = t]
    /\ rthreads' = [rthreads EXCEPT ![t] =
          [IdleThread EXCEPT !.pc = "locked", !.op = op, !.router = r, !.event = event,
                             !.handler = handler, !.flag = flag]]
    /\ rret' = NoRouterReturn
    /\ cycle' = NoCycle
    /\ UNCHANGED <<trackerVars, dispatcherVars, event_enums, _handlers>>

\* The end of a call under the lock: the with block releases the lock, on a
\* return and on an exception alike.
ReleaseAndReturn(t, found, raised, seen, invoked) ==
    /\ _lock' = [_lock EXCEPT ![rthreads[t].router] = ""]
    /\ rthreads' = [rthreads EXCEPT ![t] = IdleThread]
    /\ rret' = RouterReturn(t, found, raised, seen, invoked)

\* Every event passes for one the router routes.
event_in_handlers_always(handlers, event) == TRUE

\* "event in self._handlers".
event_in_handlers(handlers, event) == event \in DOMAIN handlers

\* "if event in self._handlers: ... else: raise EventNotExistsError".
CheckEvent(t) ==
    /\ rthreads[t].pc = "locked"
    /\ IF event_in_handlers(_handlers[rthreads[t].router], rthreads[t].event)
       THEN /\ rthreads' = [rthreads EXCEPT
                  ![t].pc = "found",
                  ![t].found = rthreads[t].event \in DOMAIN _handlers[rthreads[t].router]]
            /\ rret' = NoRouterReturn
            /\ UNCHANGED _lock
       ELSE ReleaseAndReturn(t, FALSE, "EventNotExistsError", <<>>, <<>>)
    /\ cycle' = NoCycle
    /\ UNCHANGED <<trackerVars, dispatcherVars, event_enums, _handlers>>

\* The handler is appended whether or not the list holds it.
add_handler_to_always(handlers, handler, raise_on_exist) ==
    [raised |-> "", handlers |-> Append(handlers, handler)]

\* add_handler on the event's list: "if handler not in self._handlers[event]:
\* append; elif raise_on_exist: raise HandlerAlreadyRegisteredError".
add_handler_to(handlers, handler, raise_on_exist) ==
    IF ~in_list(handlers, handler)
    THEN [raised |-> "", handlers |-> Append(handlers, handler)]
    ELSE [raised |-> IF raise_on_exist THEN "HandlerAlreadyRegisteredError" ELSE "",
          handlers |-> handlers]

\* remove_handler on the event's list: "if handler in self._handlers[event]:
\* remove; elif raise_on_not_exist: raise HandlerNotRegisteredError".
remove_handler_from(handlers, handler, raise_on_not_exist) ==
    IF in_list(handlers, handler)
    THEN [raised |-> "", handlers |-> list_remove(handlers, handler)]
    ELSE [raised |-> IF raise_on_not_exist THEN "HandlerNotRegisteredError" ELSE "",
          handlers |-> handlers]

\* What add_handler, remove_handler, clear_handlers and get_handlers do with
\* the event's list once the event was found.
handlers_after(op, handlers, handler, flag) ==
    CASE op = "add_handler" -> add_handler_to(handlers, handler, flag)
      [] op = "remove_handler" -> remove_handler_from(handlers, handler, flag)
      [] op = "clear_handlers" -> [raised |-> "", handlers |-> <<>>]
      [] op = "get_handlers" -> [raised |-> "", handlers |-> handlers]

\* The rest of add_handler, remove_handler, clear_handlers, get_handlers after
\* the test of the event: self._handlers[event] is read (KeyError when the key
\* has gone since the test) and changed, and the call ends.
ActOnHandlers(t) ==
    LET r == rthreads[t].router
        event == rthreads[t].event
    IN  /\ rthreads[t].pc = "found"
        /\ rthreads[t].op # "trigger_event"
        /\ IF event \notin DOMAIN _handlers[r]
           THEN /\ ReleaseAndReturn(t, rthreads[t].found, "KeyError", <<>>, <<>>)
                /\ UNCHANGED _handlers
           ELSE LET after == handlers_after(rthreads[t].op, _handlers[r][event],
                                            rthreads[t].handler, rthreads[t].flag)
                IN  /\ _handlers' = [_handlers EXCEPT ![r][event] = after.handlers]
                    /\ ReleaseAndReturn(t, rthreads[t].found, after.raised, _handlers[r][event], <<>>)
        /\ cycle' = NoCycle
        /\ UNCHANGED <<trackerVars, dispatcherVars, event_enums>>

\* "for event in events:" of add_handler, remove_handler and clear_handlers: the
\* events are handled one after another, each as the single event is, and the
\* first exception ends the loop with the lists as the loop has left them.
RECURSIVE for_event_in_events(_, _, _, _, _)
for_event_in_events(op, handlers, handler, events, flag) ==
    IF events = <<>> THEN [raised |-> "", handlers |-> handlers]
    ELSE IF ~event_in_handlers(handlers, Head(events))
    THEN [raised |-> "EventNotExistsError", handlers |-> handlers]
    ELSE LET after == handlers_after(op, handlers[Head(events)], handler, flag)
             changed == [handlers EXCEPT ![Head(events)] = after.handlers]
         IN  IF after.raised # "" THEN [raised |-> after.raised, handlers |-> changed]
             ELSE for_event_in_events(op, changed, handler, Tail(events), flag)

\* router.add_handler(handler, *events, raise_on_exist=flag) and
\* router.remove_handler(handler, *events, raise_on_not_exist=flag) with several
\* events, by a thread that finds the lock free: the whole call, from
\* "with self._lock" to its return or its exception.
HandlerCall(r, op, handler, events, flag) ==
    LET call == for_event_in_events(op, _handlers[r], handler, events, flag)
    IN  /\ _lock[r] = ""
        /\ _handlers' = [_handlers EXCEPT ![r] = call.handlers]
        /\ rret' = [NoRouterReturn EXCEPT !.op = op, !.router = r, !.event = Head(events),
                                          !.handler = handler, !.flag = flag,
                                          !.raised = call.raised]
        /\ cycle' = NoCycle
        /\ UNCHANGED <<trackerVars, dispatcherVars, event_enums, _lock, rthreads>>

\* "for handler in self._handlers[event]" of trigger_event: the list object is
\* read once (KeyError when the key has gone since the test) and iterated.
ReadHandlers(t) ==
    LET r == rthreads[t].router
        event == rthreads[t].event
    IN  /\ rthreads[t].pc = "found"
        /\ rthreads[t].op = "trigger_event"
        /\ IF event \notin DOMAIN _handlers[r]
           THEN ReleaseAndReturn(t, rthreads[t].found, "KeyError", <<>>, <<>>)
           ELSE /\ rthreads' = [rthreads EXCEPT ![t].pc = "invoking",
                                                ![t].seen = _handlers[r][event]]
                /\ rret' = NoRouterReturn
                /\ UNCHANGED _lock
        /\ cycle' = NoCycle
        /\ UNCHANGED <<trackerVars, dispatcherVars, event_enums, _handlers>>

\* The handlers are called from the last of the list to the first.
next_handler_backwards(seen, invoked) == seen[Len(seen) - Len(invoked)]

\* The handler the loop of trigger_event calls next.
next_handler(seen, invoked) == seen[Len(invoked) + 1]

\* "handler(event, *args, **kwargs)": one handler runs and returns.
InvokeHandler(t) ==
    /\ rthreads[t].pc = "invoking"
    /\ Len(rthreads[t].invoked) < Len(rthreads[t].seen)
    /\ rthreads' = [rthreads EXCEPT ![t].invoked =
          Append(@, next_handler(rthreads[t].seen, rthreads[t].invoked))]
    /\ rret' = NoRouterReturn
    /\ cycle' = NoCycle
    /\ UNCHANGED <<trackerVars, dispatcherVars, event_enums, _handlers, _lock>>

\* threading.Lock.acquire() by a thread: it returns when no thread holds the
\* lock, the calling thread included (the lock of Router.__init__ is a Lock, not
\* an RLock).
Lock_acquire_returns(holder, t) == holder = ""

\* "handler(event, *args, **kwargs)" with a handler that calls a method of the
\* same router (op, with its own event and itself as the handler: a handler that
\* unregisters itself, reads the handlers, triggers the event again, ...): the
\* method begins with "with self._lock:", on the thread that is inside
\* trigger_event. When the acquire returns the method runs and the handler
\* returns; else the thread stays in the acquire.
InvokeHandlerThatCalls(t, op, flag) ==
    LET r == rthreads[t].router
        handler == next_handler(rthreads[t].seen, rthreads[t].invoked)
    IN  /\ rthreads[t].pc = "invoking"
        /\ Len(rthreads[t].invoked) < Len(rthreads[t].seen)
        /\ IF Lock_acquire_returns(_lock[r], t)
           THEN /\ _handlers' = IF op \in {"add_handler", "remove_handler", "clear_handlers"}
                                THEN [_handlers EXCEPT ![r] =
                                        for_event_in_events(op, @, handler,
                                                            <<rthreads[t].event>>, flag).handlers]
                                ELSE _handlers
                /\ rthreads' = [rthreads EXCEPT ![t].invoked = Append(@, handler)]
           ELSE /\ rthreads' = [rthreads EXCEPT ![t].pc = "blocked"]
                /\ UNCHANGED _handlers
        /\ rret' = NoRouterReturn
        /\ cycle' = NoCycle
        /\ UNCHANGED <<trackerVars, dispatcherVars, event_enums, _lock>>

\* The loop of trigger_event is over: the call returns.
TriggerReturn(t) ==
    /\ rthreads[t].pc = "invoking"
    /\ Len(rthreads[t].invoked) = Len(rthreads[t].seen)
    /\ ReleaseAndReturn(t, rthreads[t].found, "", rthreads[t].seen, rthreads[t].invoked)
    /\ cycle' = NoCycle
    /\ UNCHANGED <<trackerVars, dispatcherVars, event_enums, _handlers>>

\* A call of add_event_enums or remove_event_enums that ends: the methods take
\* no lock, so none is released.
ReturnUnlocked(t, op, r, enum, raised) ==
    /\ rthreads' = [rthreads EXCEPT ![t] = IdleThread]
    /\ rret' = [NoRouterReturn EXCEPT !.op = op, !.router = r, !.enum = enum,
                                       !.raised = raised]

\* add_event_enums(enum, raise_on_exist=flag) up to the tests: "if enum not in
\* self.event_enums", the intersection with the keys of _handlers, and "elif
\* raise_on_exist". The method does not take self._lock.
AddEnumCheck(t, r, enum, flag) ==
    /\ rthreads[t].pc = "idle"
    /\ IF ~in_list(event_enums[r], enum)
       THEN IF members(enum) \cap DOMAIN _handlers[r] # {}
            THEN ReturnUnlocked(t, "add_event_enums", r, enum,
                                "EventsIntersectionError")
            ELSE /\ rthreads' = [rthreads EXCEPT ![t] =
                       [IdleThread EXCEPT !.pc = "adding", !.op = "add_event_enums",
                                          !.router = r, !.enum = enum]]
                 /\ rret' = NoRouterReturn
       ELSE ReturnUnlocked(t, "add_event_enums", r, enum,
                           IF flag THEN "EventEnumExistsError" ELSE "")
    /\ cycle' = NoCycle
    /\ UNCHANGED <<trackerVars, dispatcherVars, event_enums, _handlers, _lock>>

\* "self.event_enums.append(enum); self._handlers.update(...)" and the return.
AddEnumAct(t) ==
    LET r == rthreads[t].router
        enum == rthreads[t].enum
    IN  /\ rthreads[t].pc = "adding"
        /\ event_enums' = [event_enums EXCEPT ![r] = Append(@, enum)]
        /\ _handlers' = [_handlers EXCEPT ![r] = handlers_update(@, enum)]
        /\ ReturnUnlocked(t, "add_event_enums", r, enum, "")
        /\ cycle' = NoCycle
        /\ UNCHANGED <<trackerVars, dispatcherVars, _lock>>

\* The members of a StrEnum class in the order of iteration (of definition).
members_list(enum) ==
    CASE enum = "NoticeEvents" -> <<NoticeEvents_NEW, NoticeEvents_EDITED, NoticeEvents_DELETED>>
      [] enum = "OtherEvents" -> <<"other.ping">>
      [] enum = "ClashEvents" -> <<NoticeEvents_NEW, "clash.pong">>

\* list.remove(x) of the first x.
remove_first(list, x) ==
    LET i == CHOOSE k \in 1 .. Len(list) : list[k] = x /\ \A j \in 1 .. k - 1 : list[j] # x
    IN  SubSeq(list, 1, i - 1) \o SubSeq(list, i + 1, Len(list))

\* "for event in enum: self._handlers.pop(event)" from the i-th member on:
\* KeyError at the first member that is no key, the earlier ones popped.
RECURSIVE pop_events(_, _, _)
pop_events(handlers, events, i) ==
    IF i > Len(events) THEN [raised |-> "", _handlers |-> handlers]
    ELSE IF events[i] \notin DOMAIN handlers THEN [raised |-> "KeyError", _handlers |-> handlers]
    ELSE pop_events([event \in DOMAIN handlers \ {events[i]} |-> handlers[event]],
                    events, i + 1)

\* remove_event_enums(enum, raise_on_not_exist=flag) up to the tests: "if enum
\* in self.event_enums" and "elif raise_on_not_exist". No lock is taken.
RemoveEnumCheck(t, r, enum, flag) ==
    /\ rthreads[t].pc = "idle"
    /\ IF in_list(event_enums[r], enum)
       THEN /\ rthreads' = [rthreads EXCEPT ![t] =
                  [IdleThread EXCEPT !.pc = "removing", !.op = "remove_event_enums",
                                     !.router = r, !.enum = enum]]
            /\ rret' = NoRouterReturn
       ELSE ReturnUnlocked(t, "remove_event_enums", r, enum,
                           IF flag THEN "EventEnumNotExistsError" ELSE "")
    /\ cycle' = NoCycle
    /\ UNCHANGED <<trackerVars, dispatcherVars, event_enums, _handlers, _lock>>

\* "self.event_enums.remove(enum)" (ValueError when another thread has removed
\* it since the test), then the pops, and the return.
RemoveEnumAct(t) ==
    LET r == rthreads[t].router
        enum == rthreads[t].enum
    IN  /\ rthreads[t].pc = "removing"
        /\ IF ~in_list(event_enums[r], enum)
           THEN /\ ReturnUnlocked(t, "remove_event_enums", r, enum, "ValueError")
                /\ UNCHANGED <<event_enums, _handlers>>
           ELSE LET popped == pop_events(_handlers[r], members_list(enum), 1)
                IN  /\ event_enums' = [event_enums EXCEPT ![r] = remove_first(@, enum)]
                    /\ _handlers' = [_handlers EXCEPT ![r] = popped._handlers]
                    /\ ReturnUnlocked(t, "remove_event_enums", r, enum, popped.raised)
        /\ cycle' = NoCycle
        /\ UNCHANGED <<trackerVars, dispatcherVars, _lock>>

(* ---------------------------- dispatchers.py --------------------------- *)
\* What is recorded of the last call on the dispatcher: the call, what it raised
\* to its caller ("" for nothing), and the dispatcher's fields when it was made.
DispatcherFields == <<_trackers, _routers, _thread, threads>>
DCall(op, arg, raised) ==
    [op |-> op, arg |-> arg, raised |-> raised, was_running |-> _is_running,
     before |-> DispatcherFields]
NoDCall == [op |-> "", arg |-> 0, raised |-> "", was_running |-> FALSE,
            before |-> <<<<>>, <<>>, 0, <<>>>>]

\* BaseDispatcher._raise_if_running
raise_if_running == IF _is_running THEN "DispatcherIsRunningError" ELSE ""

\* A start() that does not look at the list of trackers.
start_raises_no_trackers_check ==
    IF Len(_routers) = 0 THEN "NoRoutersError" ELSE raise_if_running

\* A start() that does not look at _is_running.
start_raises_unguarded ==
    IF Len(_routers) = 0 THEN "NoRoutersError"
    ELSE IF Len(_trackers) = 0 THEN "NoTrackersError"
    ELSE ""

\* The checks of TrackerDispatcher.start and BaseDispatcher.start, in their order:
\* _raise_if_no_routers, _raise_if_no_trackers, _raise_if_running.
start_raises ==
    IF Len(_routers) = 0 THEN "NoRoutersError"
    ELSE IF Len(_trackers) = 0 THEN "NoTrackersError"
    ELSE raise_if_running

\* The Thread object the next start() creates.
next_thread == Cardinality({th \in ThreadIds : threads[th].pc # "unborn"}) + 1

\* dispatcher.start() (op "start") and dispatcher.run() (op "run", which only
\* calls self.start()): the checks, then _is_running = True and a new Thread
\* with target _run is started.
StartAs(op, c) ==
    /\ callers[c].pc = "idle"
    /\ start_raises = "" => next_thread \in ThreadIds
    /\ dret' = DCall(op, 0, start_raises)
    /\ IF start_raises # ""
       THEN UNCHANGED <<_is_running, _thread, threads>>
       ELSE /\ _is_running' = TRUE
            /\ _thread' = next_thread
            /\ threads' = [threads EXCEPT ![next_thread] = [pc |-> "loop", exc |-> ""]]
    /\ cycle' = NoCycle
    /\ UNCHANGED <<trackerVars, routerVars, _trackers, _routers, _errors, _consecutive_errors,
                   _errors_treshold, callers, last_cycle, streak>>

Start(c) == StartAs("start", c)
Run(c) == StartAs("run", c)

\* dispatcher.stop(): _is_running = False, then self._thread.join(); the
\* attribute _thread does not exist before the first start().
Stop(c) ==
    /\ callers[c].pc = "idle"
    /\ _is_running' = FALSE
    /\ IF _thread = 0
       THEN /\ dret' = DCall("stop", 0, "AttributeError")
            /\ UNCHANGED callers
       ELSE /\ dret' = DCall("stop", 0, "")
            /\ callers' = [callers EXCEPT ![c] = [pc |-> "join", target |-> _thread]]
    /\ cycle' = NoCycle
    /\ UNCHANGED <<trackerVars, routerVars, _trackers, _routers, _thread, _errors,
                   _consecutive_errors, _errors_treshold, threads, last_cycle, streak>>

\* A join() that does not wait for the thread.
is_alive_never(th) == FALSE

\* Thread.is_alive(): the thread has been started and its target has not ended.
is_alive(th) == threads[th].pc \notin {"unborn", "done"}

\* self._thread.join() returns once the thread has ended, and stop() with it.
JoinReturn(c) ==
    /\ callers[c].pc = "join"
    /\ ~is_alive(callers[c].target)
    /\ callers' = [callers EXCEPT ![c] = [pc |-> "idle", target |-> 0]]
    /\ dret' = DCall("stop.return", callers[c].target, "")
    /\ cycle' = NoCycle
    /\ UNCHANGED <<trackerVars, routerVars, _trackers, _routers, _is_running, _thread, _errors,
                   _consecutive_errors, _errors_treshold, threads, last_cycle, streak>>

\* TrackerDispatcher.add_tracker: what it raises.
add_tracker_raises(t) ==
    IF raise_if_running # "" THEN raise_if_running
    ELSE IF in_list(_trackers, t) THEN "TrackerAlreadyRegisteredError" ELSE ""

\* A remove_tracker that does not look at _is_running.
remove_tracker_raises_unguarded(t) ==
    IF in_list(_trackers, t) THEN "" ELSE "TrackerNotRegisteredError"

\* TrackerDispatcher.remove_tracker: what it raises.
remove_tracker_raises(t) ==
    IF raise_if_running # "" THEN raise_if_running
    ELSE IF in_list(_trackers, t) THEN "" ELSE "TrackerNotRegisteredError"

\* TrackerDispatcher.add_router: what it raises.
add_router_raises(r) ==
    IF raise_if_running # "" THEN raise_if_running
    ELSE IF in_list(_routers, r) THEN "RouterAlreadyRegisteredError" ELSE ""

\* TrackerDispatcher.remove_router: what it raises.
remove_router_raises(r) ==
    IF raise_if_running # "" THEN raise_if_running
    ELSE IF in_list(_routers, r) THEN "" ELSE "RouterNotRegisteredError"

add_tracker(c, t) ==
    /\ callers[c].pc = "idle"
    /\ t \in built
    /\ dret' = DCall("add_tracker", 0, add_tracker_raises(t))
    /\ _trackers' = IF add_tracker_raises(t) = "" THEN Append(_trackers, t) ELSE _trackers
    /\ cycle' = NoCycle
    /\ UNCHANGED <<trackerVars, routerVars, _routers, _is_running, _thread, _errors,
                   _consecutive_errors, _errors_treshold, threads, callers, last_cycle,
                   streak>>

remove_tracker(c, t) ==
    /\ callers[c].pc = "idle"
    /\ t \in built
    /\ dret' = DCall("remove_tracker", 0, remove_tracker_raises(t))
    /\ _trackers' = IF remove_tracker_raises(t) = "" THEN list_remove(_trackers, t)
                    ELSE _trackers
    /\ cycle' = NoCycle
    /\ UNCHANGED <<trackerVars, routerVars, _routers, _is_running, _thread, _errors,
                   _consecutive_errors, _errors_treshold, threads, callers, last_cycle,
                   streak>>

add_router(c, r) ==
    /\ callers[c].pc = "idle"
    /\ dret' = DCall("add_router", 0, add_router_raises(r))
    /\ _routers' = IF add_router_raises(r) = "" THEN Append(_routers, r) ELSE _routers
    /\ cycle' = NoCycle
    /\ UNCHANGED <<trackerVars, routerVars, _trackers, _is_running, _thread, _errors,
                   _consecutive_errors, _errors_treshold, threads, callers, last_cycle,
                   streak>>

remove_router(c, r) ==
    /\ callers[c].pc = "idle"
    /\ dret' = DCall("remove_router", 0, remove_router_raises(r))
    /\ _routers' = IF remove_router_raises(r) = "" THEN list_remove(_routers, r)
                   ELSE _routers
    /\ cycle' = NoCycle
    /\ UNCHANGED <<trackerVars, routerVars, _trackers, _is_running, _thread, _errors,
                   _consecutive_errors, _errors_treshold, threads, callers, last_cycle,
                   streak>>

\* NoticeTracker.dispatch_updates: (NoticeEvents(update.event), update) for each
\* update of get_updates(), in the order of the batch.
dispatch_updates(updates) ==
    [i \in 1 .. Len(updates) |->
        [event |-> NoticeEvents(updates[i].event), update |-> updates[i]]]

RECURSIVE concat_all(_)
concat_all(seqs) == IF seqs = <<>> THEN <<>> ELSE Head(seqs) \o concat_all(Tail(seqs))

\* A trigger_event call of the dispatcher, as the cycle records it.
Triggered(t, event, r) ==
    [tracker |-> t, id |-> update_id(event.update), event |-> event.event, router |-> r]

\* Every router triggered for every event, whatever its namespaces hold.
routers_of_event_unfiltered(event, routers) == routers

\* "for router in self._routers: if event.event in router.events": the routers
\* on which trigger_event is called for one event, in their order.
routers_of_event(event, routers) ==
    SelectSeq(routers, LAMBDA r : event.event \in router_events(r))

\* The events handed out router by router: every event to the first router, then
\* every event to the second.
trigger_events_by_router(t, events, routers) ==
    concat_all([j \in 1 .. Len(routers) |->
                  concat_all([i \in 1 .. Len(events) |->
                     IF events[i].event \in router_events(routers[j])
                     THEN <<Triggered(t, events[i], routers[j])>> ELSE <<>>])])

\* "for event in events: for router in self._routers: ... router.trigger_event":
\* the trigger_event calls made for the events of tracker t, in their order.
trigger_events(t, events, routers) ==
    concat_all([i \in 1 .. Len(events) |->
                  LET to == routers_of_event(events[i], routers)
                  IN  [j \in 1 .. Len(to) |-> Triggered(t, events[i], to[j])]])

\* What is recorded of a cycle: the batch of each tracker polled, the
\* trigger_event calls made, and the exception that ended it ("" for none).
Cycle(r) == [batches |-> r.batches, triggered |-> r.triggered, raised |-> r.raised, ran |-> TRUE]

\* The body of the try in _run: "for tracker in self._trackers" calls
\* tracker.dispatch_updates(), which calls get_updates(); outcomes[i] is what the
\* fetch of the i-th tracker does. The first exception ends the cycle.
RECURSIVE poll_trackers(_, _, _, _, _, _)
poll_trackers(trackers, outcomes, st, be, response, done) ==
    IF trackers = <<>>
    THEN [store |-> st, raised |-> "", batches |-> done.batches, triggered |-> done.triggered]
    ELSE IF Head(outcomes) # "ok"
    THEN [store |-> st, raised |-> Head(outcomes), batches |-> done.batches,
          triggered |-> done.triggered]
    ELSE LET r == get_updates_call(st, be, Head(trackers), notices(response))
         IN  IF r.raised # ""
             THEN [store |-> r.store, raised |-> r.raised, batches |-> done.batches,
                   triggered |-> done.triggered]
             ELSE poll_trackers(Tail(trackers), Tail(outcomes), r.store, be, response,
                     [batches |-> Append(done.batches,
                                         [tracker |-> Head(trackers), updates |-> r.updates]),
                      triggered |-> done.triggered
                                    \o trigger_events(Head(trackers),
                                                      dispatch_updates(r.updates), _routers)])

\* "except GZException": whether the consecutive errors, counted with this one,
\* have reached the threshold.
threshold_reached(consecutive_errors, errors_treshold) ==
    consecutive_errors >= errors_treshold

\* A successful cycle that leaves the counter as it is.
on_cycle_success_kept(consecutive_errors) == consecutive_errors

\* "self._consecutive_errors = 0", after the loops over trackers, events and
\* routers have ended without an exception.
on_cycle_success(consecutive_errors) == 0

\* A loop that never reads the flag: "while True".
while_forever(flag) == TRUE

\* The loop condition of _run: "while self._is_running".
while_is_running(flag) == flag


\* "while self._is_running" finds the flag true: worker th enters the try.
EnterCycle(th) ==
    /\ threads[th].pc = "loop"
    /\ while_is_running(_is_running)
    /\ threads' = [threads EXCEPT ![th].pc = "cycle"]
    /\ dret' = NoDCall
    /\ cycle' = NoCycle
    /\ UNCHANGED <<trackerVars, routerVars, _trackers, _routers, _is_running, _thread, _errors,
                   _consecutive_errors, _errors_treshold, callers, last_cycle, streak>>

\* The body of one iteration of the loop in _run, by worker th: the try and its
\* except clause, up to the time.sleep or the raise.
RunCycle(th, outcomes) ==
    /\ threads[th].pc = "cycle"
    /\ LET r == poll_trackers(_trackers, outcomes, store, backend, game_notices, NoCycle)
       IN  /\ is_GZException(r.raised) => _errors < MaxErrors
           /\ cycle' = Cycle(r)
           /\ store' = r.store
           /\ IF r.raised = ""
              THEN \* the cycle succeeded: the counter is reset, then time.sleep
                   /\ _consecutive_errors' = on_cycle_success(_consecutive_errors)
                   /\ threads' = [threads EXCEPT ![th].pc = "sleep"]
                   /\ last_cycle' = "ok"
                   /\ streak' = 0
                   /\ UNCHANGED <<_errors, _is_running>>
              ELSE IF is_GZException(r.raised)
              THEN /\ _errors' = _errors + 1
                   /\ _consecutive_errors' = _consecutive_errors + 1
                   /\ streak' = streak + 1
                   /\ IF threshold_reached(_consecutive_errors + 1, _errors_treshold)
                      THEN \* _is_running = False; raise e (out of the thread)
                           /\ _is_running' = FALSE
                           /\ threads' = [threads EXCEPT ![th] =
                                             [pc |-> "done", exc |-> r.raised]]
                           /\ last_cycle' = "halt"
                      ELSE /\ threads' = [threads EXCEPT ![th].pc = "sleep"]
                           /\ last_cycle' = "retry"
                           /\ UNCHANGED _is_running
              ELSE \* not a GZException: it leaves _run, and the thread ends
                   /\ threads' = [threads EXCEPT ![th] = [pc |-> "done", exc |-> r.raised]]
                   /\ last_cycle' = "crash"
                   /\ UNCHANGED <<_errors, _consecutive_errors, _is_running, streak>>
    /\ dret' = NoDCall
    /\ polled' = [t \in TrackerIds |-> NotPolled]
    /\ got' = NoRun(got.on)
    /\ UNCHANGED <<game_notices, backend, storageVars, built, ret, seed, pollVars, _trackers, _routers,
                   _thread,
                   _errors_treshold, callers, routerVars>>

\* time.sleep(self._polling_interval) returns.
Wake(th) ==
    /\ threads[th].pc = "sleep"
    /\ threads' = [threads EXCEPT ![th].pc = "loop"]
    /\ dret' = NoDCall
    /\ cycle' = NoCycle
    /\ UNCHANGED <<trackerVars, routerVars, _trackers, _routers, _is_running, _thread, _errors,
                   _consecutive_errors, _errors_treshold, callers, last_cycle, streak>>

\* "while self._is_running" finds the flag false: _run returns.
ExitLoop(th) ==
    /\ threads[th].pc = "loop"
    /\ ~while_is_running(_is_running)
    /\ threads' = [threads EXCEPT ![th].pc = "done"]
    /\ dret' = NoDCall
    /\ cycle' = NoCycle
    /\ UNCHANGED <<trackerVars, routerVars, _trackers, _routers, _is_running, _thread, _errors,
                   _consecutive_errors, _errors_treshold, callers, last_cycle, streak>>

(* ------------------- the worker's cycle, step by step ------------------ *)
\* A with block that is left with its lock still held.
lock_kept(locked, t) == locked

\* "with self._lock:" in get_updates is left when the method returns its list,
\* and dispatch_updates iterates over the returned list: the lock is released
\* before the generator yields.
lock_released(locked, t) == locked \ {t}

\* A cycle that puts the storage back as it found it when it is aborted.
store_rolled_back(now, found) == found

\* An exception leaves the try of _run: nothing is written to the storage.
store_after_abort(now, found) == now

\* The events of a batch from the first one that some router takes:
\* "if event.event in router.events" skips the others.
RECURSIVE deliverable(_)
deliverable(events) ==
    IF events = <<>> THEN <<>>
    ELSE IF routers_of_event(Head(events), _routers) # <<>> THEN events
    ELSE deliverable(Tail(events))

\* The place after the events given are left of the first tracker's batch: at the
\* next event and its routers, or at the next tracker.
next_place(w, events) ==
    LET rest == deliverable(events)
    IN  IF rest = <<>>
        THEN [w EXCEPT !.pc = "for_tracker", !.trackers = Tail(w.trackers),
                       !.events = <<>>, !.routers = <<>>]
        ELSE [w EXCEPT !.pc = "for_event", !.events = rest,
                       !.routers = routers_of_event(Head(rest), _routers)]

\* The updates of tracker t's batch, as they are remembered.
updates_of(t, updates) ==
    {[tracker |-> t, update |-> updates[k]] : k \in 1 .. Len(updates)}

\* The worker enters the try: "for tracker in self._trackers".
EnterTry(th) ==
    /\ threads[th].pc = "cycle"
    /\ worker.pc = ""
    /\ worker' = [worker EXCEPT !.pc = "for_tracker", !.trackers = _trackers,
                                !.found = IF worker.remember THEN store ELSE <<>>]
    /\ dret' = NoDCall
    /\ cycle' = NoCycle
    /\ UNCHANGED <<game_notices, backend, storageVars, store, built, polled, ret, seed, got,
                   tracker_lock, pollers, view, routerVars, _trackers, _routers, _is_running,
                   _thread, _errors, _consecutive_errors, _errors_treshold, threads, callers,
                   last_cycle, streak>>

\* An exception leaves the try: the except clause of _run for a GZException, the
\* end of the thread for any other. The locks of the with blocks it passed
\* through are released, and what the cycle polled is left in the storage.
LeaveTry(th, exc, st) ==
    /\ is_GZException(exc) => _errors < MaxErrors
    /\ store' = IF worker.remember THEN store_after_abort(st, worker.found) ELSE st
    /\ worker' = [NotInTry EXCEPT
                    !.remember = worker.remember,
                    !.aborted_updates = worker.aborted_updates \cup worker.polls]
    /\ _lock' = [r \in RouterIds |-> IF _lock[r] = "worker" THEN "" ELSE _lock[r]]
    /\ IF is_GZException(exc)
       THEN /\ _errors' = _errors + 1
            /\ _consecutive_errors' = _consecutive_errors + 1
            /\ streak' = streak + 1
            /\ IF threshold_reached(_consecutive_errors + 1, _errors_treshold)
               THEN /\ _is_running' = FALSE
                    /\ threads' = [threads EXCEPT ![th] = [pc |-> "done", exc |-> exc]]
                    /\ last_cycle' = "halt"
               ELSE /\ threads' = [threads EXCEPT ![th].pc = "sleep"]
                    /\ last_cycle' = "retry"
                    /\ UNCHANGED _is_running
       ELSE /\ threads' = [threads EXCEPT ![th] = [pc |-> "done", exc |-> exc]]
            /\ last_cycle' = "crash"
            /\ UNCHANGED <<_errors, _consecutive_errors, _is_running, streak>>
    /\ dret' = NoDCall
    /\ cycle' = NoCycle
    /\ polled' = [t \in TrackerIds |-> NotPolled]
    /\ got' = NoRun(got.on)
    /\ rret' = NoRouterReturn
    /\ UNCHANGED <<game_notices, backend, storageVars, built, ret, seed, tracker_lock, pollers,
                   view, event_enums, _handlers, rthreads, _trackers, _routers, _thread,
                   _errors_treshold, callers>>

\* tracker.dispatch_updates() is iterated: get_updates() takes the tracker's
\* lock, fetches, and writes the cursor and the snapshot; outcome is what the
\* fetch does. An exception leaves the with block and the try.
CallGetUpdates(th, outcome) ==
    /\ threads[th].pc = "cycle"
    /\ worker.pc = "for_tracker"
    /\ worker.trackers # <<>>
    /\ LET t == Head(worker.trackers)
           fetched == notices(game_notices)
           r == get_updates_call(store, backend, t, fetched)
       IN  IF outcome # "ok"
           THEN LeaveTry(th, outcome, store)
           ELSE IF r.raised # ""
           THEN LeaveTry(th, r.raised, r.store)
           ELSE /\ store' = r.store
                /\ worker' = [worker EXCEPT
                                !.pc = "in_get_updates",
                                !.locked = @ \cup {t},
                                !.returning = r.updates,
                                !.polls = IF worker.remember
                                          THEN @ \cup updates_of(t, r.updates) ELSE @]
                /\ dret' = NoDCall
                /\ cycle' = NoCycle
                /\ polled' = [u \in TrackerIds |-> NotPolled]
                /\ got' = NoRun(got.on)
                /\ UNCHANGED <<game_notices, backend, storageVars, built, ret, seed,
                               tracker_lock, pollers, view, routerVars, _trackers, _routers,
                               _is_running, _thread, _errors, _consecutive_errors,
                               _errors_treshold, threads, callers, last_cycle, streak>>

\* get_updates() returns its list and dispatch_updates yields the first update,
\* if there is one.
GetUpdatesReturns(th) ==
    /\ threads[th].pc = "cycle"
    /\ worker.pc = "in_get_updates"
    /\ worker' = next_place([worker EXCEPT
                               !.locked = lock_released(@, Head(worker.trackers)),
                               !.returning = <<>>],
                            dispatch_updates(worker.returning))
    /\ dret' = NoDCall
    /\ cycle' = NoCycle
    /\ UNCHANGED <<game_notices, backend, storageVars, store, built, polled, ret, seed, got,
                   tracker_lock, pollers, view, routerVars, _trackers, _routers, _is_running,
                   _thread, _errors, _consecutive_errors, _errors_treshold, threads, callers,
                   last_cycle, streak>>

\* router.trigger_event(event) on the next router of the event: the call takes
\* the router's lock ("with self._lock:") and begins to call the handlers.
CallTriggerEvent(th) ==
    /\ threads[th].pc = "cycle"
    /\ worker.pc = "for_event"
    /\ lock_is_free(_lock[Head(worker.routers)])
    /\ _lock' = [_lock EXCEPT ![Head(worker.routers)] = "worker"]
    /\ worker' = [worker EXCEPT !.pc = "in_trigger_event"]
    /\ rret' = NoRouterReturn
    /\ dret' = NoDCall
    /\ cycle' = NoCycle
    /\ UNCHANGED <<game_notices, backend, storageVars, store, built, polled, ret, seed, got,
                   tracker_lock, pollers, view, event_enums, _handlers, rthreads, _trackers,
                   _routers, _is_running, _thread, _errors, _consecutive_errors,
                   _errors_treshold, threads, callers, last_cycle, streak>>

\* trigger_event ends: it returns when every handler has returned ("ok"), or the
\* exception of a handler leaves it, and the try with it. Either way the with
\* block releases the router's lock.
TriggerEventEnds(th, outcome) ==
    /\ threads[th].pc = "cycle"
    /\ worker.pc = "in_trigger_event"
    /\ IF outcome # "ok"
       THEN LeaveTry(th, outcome, store)
       ELSE /\ _lock' = [_lock EXCEPT ![Head(worker.routers)] = ""]
            /\ worker' = IF Tail(worker.routers) # <<>>
                         THEN [worker EXCEPT !.pc = "for_event", !.routers = Tail(@)]
                         ELSE next_place(worker, Tail(worker.events))
            /\ rret' = NoRouterReturn
            /\ dret' = NoDCall
            /\ cycle' = NoCycle
            /\ UNCHANGED <<game_notices, backend, storageVars, store, built, polled, ret, seed,
                           got, tracker_lock, pollers, view, event_enums, _handlers, rthreads,
                           _trackers, _routers, _is_running, _thread, _errors,
                           _consecutive_errors, _errors_treshold, threads, callers, last_cycle,
                           streak>>

\* The loops of the try have ended: "self._consecutive_errors = 0", then
\* time.sleep.
TryEnds(th) ==
    /\ threads[th].pc = "cycle"
    /\ worker.pc = "for_tracker"
    /\ worker.trackers = <<>>
    /\ worker' = [NotInTry EXCEPT !.remember = worker.remember,
                                  !.aborted_updates = worker.aborted_updates]
    /\ _consecutive_errors' = on_cycle_success(_consecutive_errors)
    /\ threads' = [threads EXCEPT ![th].pc = "sleep"]
    /\ last_cycle' = "ok"
    /\ streak' = 0
    /\ dret' = NoDCall
    /\ cycle' = NoCycle
    /\ UNCHANGED <<game_notices, backend, storageVars, store, built, polled, ret, seed, got,
                   tracker_lock, pollers, view, routerVars, _trackers, _routers, _is_running,
                   _thread, _errors, _errors_treshold, callers>>

(* ---------------------------- specifications --------------------------- *)
\* The platform holds no notice yet. The storage is one of backends; the trackers
\* of `constructed` were built on it with ignore_old_notices=True (their
\* throwaway get_updates() stored the empty snapshot and no cursor). The
\* dispatcher is TrackerDispatcher(errors_treshold=threshold), with no routers
\* and no trackers.
InitWith(threshold, backends, constructed, trackers, routers, router_enums, history, classes) ==
    /\ game_notices = {}
    /\ seed = [t \in TrackerIds |-> NotConstructed(history = "construction")]
    /\ got = NoRun(history = "get_new")
    /\ tracker_lock = ""
    /\ worker = [NotInTry EXCEPT !.remember = (history = "aborts")]
    /\ pollers = [th \in PollThreads |-> IdlePoller]
    /\ view = [notices |-> {}, clean |-> TRUE]
    /\ backend \in backends
    /\ storage_class \in classes
    /\ _store = NothingStored
    /\ _is_closed = FALSE
    /\ serves = TRUE
    /\ ever_set = {}
    /\ sret = NoStorageCall
    /\ store = [key \in StorageKeys |->
                  IF \E t \in constructed : key = nlist_key(t)
                  THEN snapshot_value(<<>>) ELSE NoneValue]
    /\ built = constructed
    /\ polled = [t \in TrackerIds |->
                   IF t \in constructed THEN Polled(<<>>) ELSE NotPolled]
    /\ ret = NoCall
    /\ _trackers = trackers
    /\ _routers = routers
    /\ event_enums = [r \in RouterIds |-> Router_init(router_enums[r]).event_enums]
    /\ _handlers = [r \in RouterIds |-> Router_init(router_enums[r])._handlers]
    /\ _lock = [r \in RouterIds |-> ""]
    /\ rthreads = [t \in RouterThreads |-> IdleThread]
    /\ rret = NoRouterReturn
    /\ cycle = NoCycle
    /\ _is_running = FALSE
    /\ _thread = 0
    /\ _errors = 0
    /\ _consecutive_errors = 0
    /\ _errors_treshold = threshold
    /\ threads = [th \in ThreadIds |-> [pc |-> "unborn", exc |-> ""]]
    /\ callers = [c \in Callers |-> [pc |-> "idle", target |-> 0]]
    /\ dret = NoDCall
    /\ last_cycle = ""
    /\ streak = 0

\* The routers of the application: Router(NoticeEvents) and Router(OtherEvents).
AppRouters == [r \in RouterIds |-> IF r = 1 THEN <<"NoticeEvents">> ELSE <<"OtherEvents">>]

Init ==
    \E threshold \in 1 .. MaxThreshold :
       InitWith(threshold, {"memory"}, TrackerIds, <<>>, <<>>, AppRouters, "",
                   {"InMemoryStorage"})

\* The dispatcher, its trackers and routers, the calls the application's main
\* thread makes on it, and its workers.
MainCallers == {"main"}
Next ==
    \/ \E c \in MainCallers : Start(c)
    \/ \E c \in MainCallers : Run(c)
    \/ \E c \in MainCallers : Stop(c)
    \/ \E c \in MainCallers : JoinReturn(c)
    \/ \E c \in MainCallers, t \in TrackerIds : add_tracker(c, t)
    \/ \E c \in MainCallers, t \in TrackerIds : remove_tracker(c, t)
    \/ \E c \in MainCallers, r \in RouterIds : add_router(c, r)
    \/ \E c \in MainCallers, r \in RouterIds : remove_router(c, r)
    \/ \E th \in ThreadIds : EnterCycle(th)
    \/ \E th \in ThreadIds :
          \E outcomes \in [1 .. Len(_trackers) -> FetchOutcomes] : RunCycle(th, outcomes)
    \/ \E th \in ThreadIds : Wake(th)
    \/ \E th \in ThreadIds : ExitLoop(th)

Spec == Init /\ [][Next]_vars

\* TrackerDispatcher(routers=[router], trackers=[tracker]), started and stopped
\* by the main thread, under a scheduler that lets every thread run: a worker
\* that can take its next step (every fetch and every handler returns, and so
\* does time.sleep) takes it, and a join() whose thread has ended returns.
WorkerStep(th) ==
    \/ EnterCycle(th)
    \/ \E outcomes \in [1 .. Len(_trackers) -> FetchOutcomes] : RunCycle(th, outcomes)
    \/ Wake(th)
    \/ ExitLoop(th)
StopInit ==
    \E threshold \in 1 .. MaxThreshold :
       InitWith(threshold, {"memory"}, TrackerIds, <<DefaultTrackerId>>, <<1>>, AppRouters,
                "", {"InMemoryStorage"})
StopNext ==
    \/ \E c \in MainCallers : Start(c)
    \/ \E c \in MainCallers : Stop(c)
    \/ \E c \in MainCallers : JoinReturn(c)
    \/ \E th \in ThreadIds : EnterCycle(th)
    \/ \E th \in ThreadIds :
          \E outcomes \in [1 .. Len(_trackers) -> FetchOutcomes] : RunCycle(th, outcomes)
    \/ \E th \in ThreadIds : Wake(th)
    \/ \E th \in ThreadIds : ExitLoop(th)
FairStopSpec ==
    /\ StopInit /\ [][StopNext]_vars
    /\ \A th \in ThreadIds : WF_vars(WorkerStep(th))
    /\ \A c \in MainCallers : WF_vars(JoinReturn(c))

\* One tracker (the default tracker_id), polled by the application while the
\* platform's notices change.
DefaultErrorsTreshold == 10
TrackerInit ==
    InitWith(DefaultErrorsTreshold, Backends, {}, <<>>, <<>>, AppRouters, "",
                   {"InMemoryStorage"})
TrackerNext ==
    \/ \E id \in Ids, values \in Values : PlatformAdd(id, values)
    \/ \E id \in Ids, values \in Values : PlatformEdit(id, values)
    \/ \E id \in Ids : PlatformDelete(id)
    \/ \E ignore_old_notices \in BOOLEAN, outcome \in FetchOutcomes :
          NoticeTracker_init(DefaultTrackerId, ignore_old_notices, outcome)
    \/ \E outcome \in FetchOutcomes : GetUpdates(DefaultTrackerId, outcome)
    \/ \E has_limit \in BOOLEAN, outcome \in FetchOutcomes :
          \E limit \in (IF has_limit THEN 0 .. MaxLimit ELSE {0}) :
             GetNew(DefaultTrackerId, has_limit, limit, outcome)

TrackerSpec == TrackerInit /\ [][TrackerNext]_vars

\* TrackerDispatcher(routers=[...], trackers=[...]) over two trackers of the same
\* game and one or two of the routers, each a Router(NoticeEvents) or a
\* Router(OtherEvents);
\* the worker's cycles, with fetches that succeed, while the platform's notices
\* change.
DispatchIds == 1 .. MaxDispatchId
DispatchInit ==
    \E trackers \in {<<1, 2>>, <<2, 1>>}, routers \in {<<1, 2>>, <<2>>} :
       \E router_enums \in [RouterIds -> {<<"NoticeEvents">>, <<"OtherEvents">>}] :
          InitWith(DefaultErrorsTreshold, {"memory"}, TrackerIds, trackers, routers,
                   router_enums, "",
                   {"InMemoryStorage"})
DispatchNext ==
    \/ \E id \in DispatchIds, values \in Values : PlatformAdd(id, values)
    \/ \E id \in DispatchIds, values \in Values : PlatformEdit(id, values)
    \/ \E id \in DispatchIds : PlatformDelete(id)
    \/ \E c \in MainCallers : Start(c)
    \/ \E th \in ThreadIds : EnterCycle(th)
    \/ \E th \in ThreadIds : RunCycle(th, [i \in 1 .. Len(_trackers) |-> "ok"])
    \/ \E th \in ThreadIds : Wake(th)

DispatchSpec == DispatchInit /\ [][DispatchNext]_vars

\* One tracker, constructed by the application with or without
\* ignore_old_notices while the platform's notices 1..MaxDispatchId change, and
\* then polled; what existed at its construction is remembered.
SeedInit ==
    InitWith(DefaultErrorsTreshold, Backends, {}, <<>>, <<>>, AppRouters, "construction",
                   {"InMemoryStorage"})
SeedNext ==
    \/ \E id \in DispatchIds, values \in Values : PlatformAdd(id, values)
    \/ \E id \in DispatchIds, values \in Values : PlatformEdit(id, values)
    \/ \E id \in DispatchIds : PlatformDelete(id)
    \/ \E ignore_old_notices \in BOOLEAN, outcome \in FetchOutcomes :
          NoticeTracker_init(DefaultTrackerId, ignore_old_notices, outcome)
    \/ \E outcome \in FetchOutcomes : GetUpdates(DefaultTrackerId, outcome)
    \/ \E has_limit \in BOOLEAN, outcome \in FetchOutcomes :
          \E limit \in (IF has_limit THEN 0 .. MaxLimit ELSE {0}) :
             GetNew(DefaultTrackerId, has_limit, limit, outcome)

SeedSpec == SeedInit /\ [][SeedNext]_vars

\* Two threads that call get_updates() and get_new() on one tracker (of an
\* InMemoryStorage) while the platform's notices 1..MaxConcurrentId change.
ConcurrentIds == 1 .. MaxConcurrentId
ConcurrentInit ==
    InitWith(DefaultErrorsTreshold, {"memory"}, {DefaultTrackerId}, <<>>, <<>>, AppRouters,
             "",
                   {"InMemoryStorage"})
ConcurrentNext ==
    \/ \E id \in ConcurrentIds, values \in Values : PlatformAdd(id, values)
    \/ \E id \in ConcurrentIds, values \in Values : PlatformEdit(id, values)
    \/ \E id \in ConcurrentIds : PlatformDelete(id)
    \/ \E th \in PollThreads, op \in {"get_updates", "get_new"} : PollCall(th, op)
    \/ \E th \in PollThreads : PollRead(th)
    \/ \E th \in PollThreads : PollWrite(th)

ConcurrentSpec == ConcurrentInit /\ [][ConcurrentNext]_vars

\* One router, constructed as Router(NoticeEvents), Router(ClashEvents) or
\* any Router(first, second) of these that the constructor accepts, and two
\* threads of the application that call its methods.
TheRouter == 1
ConstructorArguments ==
    {<<enum>> : enum \in RouterEnums}
       \cup {<<first, second>> : first \in RouterEnums, second \in RouterEnums}
RouterInit ==
    \E enums \in ConstructorArguments :
       /\ Router_init(enums).raised = ""
       /\ InitWith(DefaultErrorsTreshold, {"memory"}, TrackerIds, <<>>, <<>>,
                   [r \in RouterIds |-> IF r = TheRouter THEN enums ELSE <<>>], "",
                   {"InMemoryStorage"})
RouterNext ==
    \/ \E t \in RouterThreads, op \in LockedOps, event \in RouterEvents,
          handler \in Handlers \cup {""}, flag \in BOOLEAN :
          /\ takes_handler(op) => handler # ""
          /\ AcquireLock(t, TheRouter, op, event, handler, flag)
    \/ \E t \in RouterThreads : CheckEvent(t)
    \/ \E t \in RouterThreads : ActOnHandlers(t)
    \/ \E t \in RouterThreads : ReadHandlers(t)
    \/ \E t \in RouterThreads : InvokeHandler(t)
    \/ \E t \in RouterThreads : TriggerReturn(t)
    \/ \E t \in RouterThreads, enum \in RouterEnums, flag \in BOOLEAN :
          AddEnumCheck(t, TheRouter, enum, flag)
    \/ \E t \in RouterThreads : AddEnumAct(t)
    \/ \E t \in RouterThreads, enum \in RouterEnums, flag \in BOOLEAN :
          RemoveEnumCheck(t, TheRouter, enum, flag)
    \/ \E t \in RouterThreads : RemoveEnumAct(t)

RouterSpec == RouterInit /\ [][RouterNext]_vars

\* One storage of any of the four classes, opened by the application, and the
\* calls the application makes on it.
StorageOps == {"get", "set", "unset", "exists"}
StorageInit ==
    InitWith(DefaultErrorsTreshold, {"memory"}, {}, <<>>, <<>>, AppRouters, "",
             StorageClasses)
StorageNext ==
    \/ \E key \in TestKeys : StorageCall("get", key, PyNone)
    \/ \E key \in TestKeys, value \in PyValues : StorageCall("set", key, value)
    \/ \E key \in TestKeys : StorageCall("unset", key, PyNone)
    \/ \E key \in TestKeys : StorageCall("exists", key, PyNone)
    \/ StorageClose
    \/ StorageClosed

StorageSpec == StorageInit /\ [][StorageNext]_vars

\* TrackerDispatcher(routers=[router], trackers=[tracker]) with the
\* Router(NoticeEvents) of the application, started and stopped by the main
\* thread while another thread of the application calls add_handler,
\* remove_handler and clear_handlers on the router.
HandlerOps == {"add_handler", "remove_handler", "clear_handlers"}
HandlerThreads == {"t1"}
RunningRouterInit ==
    InitWith(DefaultErrorsTreshold, {"memory"}, TrackerIds, <<DefaultTrackerId>>,
             <<TheRouter>>, AppRouters, "", {"InMemoryStorage"})
RunningRouterNext ==
    \/ \E c \in MainCallers : Start(c)
    \/ \E c \in MainCallers : Stop(c)
    \/ \E c \in MainCallers : JoinReturn(c)
    \/ \E th \in ThreadIds : EnterCycle(th)
    \/ \E th \in ThreadIds : RunCycle(th, [i \in 1 .. Len(_trackers) |-> "ok"])
    \/ \E th \in ThreadIds : Wake(th)
    \/ \E th \in ThreadIds : ExitLoop(th)
    \/ \E t \in HandlerThreads, op \in HandlerOps, event \in RouterEvents,
          handler \in Handlers \cup {""}, flag \in BOOLEAN :
          /\ takes_handler(op) => handler # ""
          /\ AcquireLock(t, TheRouter, op, event, handler, flag)
    \/ \E t \in HandlerThreads : CheckEvent(t)
    \/ \E t \in HandlerThreads : ActOnHandlers(t)

RunningRouterSpec == RunningRouterInit /\ [][RunningRouterNext]_vars

\* TrackerDispatcher(routers=[router], trackers=[tracker]), started and stopped
\* by two threads of the application.
RaceInit ==
    InitWith(DefaultErrorsTreshold, {"memory"}, TrackerIds, <<DefaultTrackerId>>, <<1>>, AppRouters, "", {"InMemoryStorage"})
RaceNext ==
    \/ \E c \in Callers : Start(c)
    \/ \E c \in Callers : Stop(c)
    \/ \E c \in Callers : JoinReturn(c)
    \/ \E th \in ThreadIds : EnterCycle(th)
    \/ \E th \in ThreadIds : RunCycle(th, [i \in 1 .. Len(_trackers) |-> "ok"])
    \/ \E th \in ThreadIds : Wake(th)
    \/ \E th \in ThreadIds : ExitLoop(th)

RaceSpec == RaceInit /\ [][RaceNext]_vars

\* One tracker key on one storage, over restarts of the application: a tracker
\* is constructed, polled and dropped, and another is constructed with the same
\* tracker_id, while the platform's notices 1..MaxDispatchId change.
RestartInit ==
    InitWith(DefaultErrorsTreshold, Backends, {}, <<>>, <<>>, AppRouters, "", {"InMemoryStorage"})
RestartNext ==
    \/ \E id \in DispatchIds, values \in Values : PlatformAdd(id, values)
    \/ \E id \in DispatchIds, values \in Values : PlatformEdit(id, values)
    \/ \E id \in DispatchIds : PlatformDelete(id)
    \/ \E ignore_old_notices \in BOOLEAN :
          NoticeTracker_init(DefaultTrackerId, ignore_old_notices, "ok")
    \/ GetUpdates(DefaultTrackerId, "ok")
    \/ TrackerDropped(DefaultTrackerId)

RestartSpec == RestartInit /\ [][RestartNext]_vars

\* The Router(NoticeEvents) of the application, and the calls of add_handler and
\* remove_handler with one or two events that the application makes on it.
CallEvents == {"notice.new", "notice.edited", "unknown.event"}
EventLists ==
    {<<event>> : event \in CallEvents}
       \cup {<<first, second>> : first \in CallEvents, second \in CallEvents}
ManyEventsInit ==
    InitWith(DefaultErrorsTreshold, {"memory"}, TrackerIds, <<>>, <<>>, AppRouters, "", {"InMemoryStorage"})
ManyEventsNext ==
    \E op \in {"add_handler", "remove_handler"}, handler \in Handlers,
       events \in EventLists, flag \in BOOLEAN :
       HandlerCall(TheRouter, op, handler, events, flag)

ManyEventsSpec == ManyEventsInit /\ [][ManyEventsNext]_vars

\* The Router(NoticeEvents) of the application and one thread that registers
\* handlers and triggers events; a handler may call the router it runs in.
ReentryInit ==
    InitWith(DefaultErrorsTreshold, {"memory"}, TrackerIds, <<>>, <<>>, AppRouters, "", {"InMemoryStorage"})
ReentryNext ==
    \/ \E t \in HandlerThreads, op \in {"add_handler", "remove_handler", "trigger_event"},
          event \in RouterEvents, handler \in Handlers \cup {""}, flag \in BOOLEAN :
          /\ takes_handler(op) => handler # ""
          /\ AcquireLock(t, TheRouter, op, event, handler, flag)
    \/ \E t \in HandlerThreads : CheckEvent(t)
    \/ \E t \in HandlerThreads : ActOnHandlers(t)
    \/ \E t \in HandlerThreads : ReadHandlers(t)
    \/ \E t \in HandlerThreads : InvokeHandler(t)
    \/ \E t \in HandlerThreads, op \in LockedOps, flag \in BOOLEAN :
          InvokeHandlerThatCalls(t, op, flag)
    \/ \E t \in HandlerThreads : TriggerReturn(t)

ReentrySpec == ReentryInit /\ [][ReentryNext]_vars

\* One tracker over an InMemoryStorage, drained with get_new(limit=k), k >= 1,
\* between changes of the platform's notices; every fetch succeeds.
DrainInit ==
    InitWith(DefaultErrorsTreshold, {"memory"}, {}, <<>>, <<>>, AppRouters, "get_new",
                   {"InMemoryStorage"})
DrainNext ==
    \/ \E id \in Ids, values \in Values : PlatformAdd(id, values)
    \/ \E id \in Ids : PlatformDelete(id)
    \/ \E ignore_old_notices \in BOOLEAN :
          NoticeTracker_init(DefaultTrackerId, ignore_old_notices, "ok")
    \/ \E limit \in 1 .. MaxLimit : GetNew(DefaultTrackerId, TRUE, limit, "ok")

DrainSpec == DrainInit /\ [][DrainNext]_vars

\* TrackerDispatcher(routers=[r1, r2], trackers=[t1, t2]) over two trackers of
\* one game and two routers, the second a Router(NoticeEvents) or a
\* Router(OtherEvents): the worker's cycles step by step, with fetches and
\* handlers that return, while notices come and go on the platform.
StepInit ==
    \E kind \in {"NoticeEvents", "OtherEvents"} :
       InitWith(DefaultErrorsTreshold, {"memory"}, TrackerIds, <<1, 2>>, <<1, 2>>,
                   [r \in RouterIds |-> IF r = 1 THEN <<"NoticeEvents">> ELSE <<kind>>], "",
                   {"InMemoryStorage"})
StepNext ==
    \/ \E id \in DispatchIds : PlatformAdd(id, "a")
    \/ \E id \in DispatchIds : PlatformDelete(id)
    \/ \E c \in MainCallers : Start(c)
    \/ \E th \in ThreadIds : EnterCycle(th)
    \/ \E th \in ThreadIds : EnterTry(th)
    \/ \E th \in ThreadIds : CallGetUpdates(th, "ok")
    \/ \E th \in ThreadIds : GetUpdatesReturns(th)
    \/ \E th \in ThreadIds : CallTriggerEvent(th)
    \/ \E th \in ThreadIds : TriggerEventEnds(th, "ok")
    \/ \E th \in ThreadIds : TryEnds(th)
    \/ \E th \in ThreadIds : Wake(th)

StepSpec == StepInit /\ [][StepNext]_vars

\* The same dispatcher with a Router(NoticeEvents) and a Router(OtherEvents),
\* its cycles step by step with fetches and handlers that return or raise a
\* GZException (RequestFailedError) or another exception (ConnectError), while
\* the notices 1 and 2 come and go on the platform.
AbortIds == {1, 2}
TryOutcomes == {"ok", "RequestFailedError", "ConnectError"}
AbortInit ==
    InitWith(DefaultErrorsTreshold, {"memory"}, TrackerIds, <<1, 2>>, <<1, 2>>, AppRouters,
                   "aborts", {"InMemoryStorage"})
AbortNext ==
    \/ \E id \in AbortIds : PlatformAdd(id, "a")
    \/ \E id \in AbortIds : PlatformDelete(id)
    \/ \E c \in MainCallers : Start(c)
    \/ \E th \in ThreadIds : EnterCycle(th)
    \/ \E th \in ThreadIds : EnterTry(th)
    \/ \E th \in ThreadIds, outcome \in TryOutcomes : CallGetUpdates(th, outcome)
    \/ \E th \in ThreadIds : GetUpdatesReturns(th)
    \/ \E th \in ThreadIds : CallTriggerEvent(th)
    \/ \E th \in ThreadIds, outcome \in TryOutcomes : TriggerEventEnds(th, outcome)
    \/ \E th \in ThreadIds : TryEnds(th)
    \/ \E th \in ThreadIds : Wake(th)

AbortSpec == AbortInit /\ [][AbortNext]_vars

(* ------------------------------ properties ----------------------------- *)
\* The ids of a list of notices, and the notice of the list with a given id.
ids_of(notice_list) == {notice_list[i].id : i \in 1 .. Len(notice_list)}
notice_of(notice_list, id) ==
    notice_list[CHOOSE i \in 1 .. Len(notice_list) : notice_list[i].id = id]

\* The updates a batch holds about an id, and those a fetch and a snapshot call for.
updates_about(updates, id) == SelectSeq(updates, LAMBDA update : update_id(update) = id)
expected_about(id, fetched, snapshot) ==
    IF id \in ids_of(fetched) /\ id \notin ids_of(snapshot)
    THEN <<NoticeUpdate(NoticeEvents_NEW, notice_of(fetched, id), NoNotice)>>
    ELSE IF id \notin ids_of(fetched) /\ id \in ids_of(snapshot)
    THEN <<NoticeUpdate(NoticeEvents_DELETED, NoNotice, notice_of(snapshot, id))>>
    ELSE IF /\ id \in ids_of(fetched)
            /\ id \in ids_of(snapshot)
            /\ notice_of(fetched, id) # notice_of(snapshot, id)
    THEN <<NoticeUpdate(NoticeEvents_EDITED, notice_of(fetched, id), notice_of(snapshot, id))>>
    ELSE <<>>

EmptyStore == [key \in StorageKeys |-> NoneValue]
returned_ok(op) == ret.op = op /\ ret.raised = ""

\* The snapshot {1: a, 2: b, 3: c} and the fetch {2: b2, 3: c, 4: d}.
SnapshotABC == <<Notice(1, 1, "a"), Notice(2, 2, "b"), Notice(3, 3, "c")>>
FetchB2CD == <<Notice(2, 2, "b2"), Notice(3, 3, "c"), Notice(4, 4, "d")>>

\* C1: the batch a successful get_updates() returns holds, for every id, exactly
\* the one update its case calls for: new for an id only in the fetch, deleted for
\* an id only in the prior snapshot, edited for an id in both whose content
\* differs, and none for an id in both with equal content; so no id is in two
\* updates. With the snapshot {1: a, 2: b, 3: c} and the fetch {2: b2, 3: c, 4: d}
\* the batch is deleted(1), edited(2), new(4).
C1_OneUpdatePerChangedId ==
    /\ returned_ok("get_updates") =>
          \A id \in Ids \cup {update_id(ret.updates[k]) : k \in 1 .. Len(ret.updates)} :
             updates_about(ret.updates, id) = expected_about(id, ret.fetched, ret.old_notices)
    /\ get_updates_call(storage_set(EmptyStore, nlist_key(DefaultTrackerId),
                                    snapshot_value(SnapshotABC)),
                        "memory", DefaultTrackerId, FetchB2CD).updates
         = << NoticeUpdate(NoticeEvents_DELETED, NoNotice, Notice(1, 1, "a")),
              NoticeUpdate(NoticeEvents_EDITED, Notice(2, 2, "b2"), Notice(2, 2, "b")),
              NoticeUpdate(NoticeEvents_NEW, Notice(4, 4, "d"), NoNotice) >>

\* A get_updates() has returned a batch with a deleted, an edited and a new update.
C1_Witness ==
    /\ returned_ok("get_updates")
    /\ \A event \in {NoticeEvents_NEW, NoticeEvents_EDITED, NoticeEvents_DELETED} :
          \E k \in 1 .. Len(ret.updates) : ret.updates[k].event = event

\* C2: no get_new() or get_updates() leaves the persisted cursor lower than it
\* found it, the removal of the notice with the highest id included.
C2_CursorNeverDecreases ==
    ret.op \in {"get_new", "get_updates"} => last_nid(store, ret.tracker) >= ret.old_lnid

\* C6: after a successful get_updates() the persisted snapshot is exactly the list
\* that call fetched (the platform's notices at that moment, nothing of the prior
\* snapshot mixed in), and when the fetch is not empty the cursor is the highest
\* id in it.
C6_SnapshotIsTheFetch ==
    returned_ok("get_updates") =>
       /\ old_notices_of(store, ret.tracker) = ret.fetched
       /\ {ret.fetched[i] : i \in 1 .. Len(ret.fetched)} = game_notices
       /\ ret.fetched # <<>> =>
             /\ last_nid(store, ret.tracker) \in ids_of(ret.fetched)
             /\ \A id \in ids_of(ret.fetched) : id <= last_nid(store, ret.tracker)

\* A get_updates() has returned whose fetch held two notices or more, whose prior
\* snapshot held a notice the fetch does not, and which moved the cursor.
C6_Witness ==
    /\ returned_ok("get_updates")
    /\ Len(ret.fetched) >= 2
    /\ ids_of(ret.old_notices) \ ids_of(ret.fetched) # {}
    /\ last_nid(store, ret.tracker) # ret.old_lnid

\* C7: a get_updates() that follows a get_updates() on the same tracker, the fetch
\* returning the same notices both times, returns an empty batch and leaves the
\* cursor and the snapshot (the whole storage) as the first call left them.
C7_SecondPollIsEmpty ==
    (returned_ok("get_updates") /\ ret.repeat) =>
       /\ ret.updates = <<>>
       /\ store = ret.old_store

\* The second of two such calls has returned, the fetch holding two notices.
C7_Witness ==
    /\ returned_ok("get_updates")
    /\ ret.repeat
    /\ Len(ret.fetched) >= 2
    /\ ret.updates = <<>>

\* C8: get_new(limit), for no limit or a limit >= 0, returns the fetched notices
\* whose id is above the cursor, in the order of the fetch, cut to the first
\* `limit` of them; it sets the cursor to the id of the last notice it returns, and
\* leaves it alone when it returns none. With the fetch [5, 6, 7], the cursor 4 and
\* limit=2 it returns [5, 6] and the cursor becomes 6.
C8_GetNewReturnsAboveCursor ==
    /\ returned_ok("get_new") =>
          LET above == {i \in 1 .. Len(ret.fetched) : ret.fetched[i].id > ret.old_lnid}
              count == IF ret.has_limit /\ ret.limit < Cardinality(above)
                       THEN ret.limit ELSE Cardinality(above)
              nth(k) == CHOOSE i \in above : Cardinality({j \in above : j <= i}) = k
          IN  /\ Len(ret.returned) = count
              /\ \A k \in 1 .. count : ret.returned[k] = ret.fetched[nth(k)]
              /\ last_nid(store, ret.tracker) =
                    IF count = 0 THEN ret.old_lnid ELSE ret.returned[count].id
    /\ LET call == get_new_call(storage_set(EmptyStore, lnid_key(DefaultTrackerId),
                                            IntValue(4)),
                                DefaultTrackerId,
                                <<Notice(5, 5, "a"), Notice(6, 6, "a"), Notice(7, 7, "a")>>,
                                TRUE, 2)
       IN  /\ call.returned = <<Notice(5, 5, "a"), Notice(6, 6, "a")>>
           /\ last_nid(call.store, DefaultTrackerId) = 6

\* A get_new(limit) has returned that left out a notice at or below the cursor and
\* cut the rest: the cursor is now below the highest id of the fetch.
C8_Witness ==
    /\ returned_ok("get_new")
    /\ ret.has_limit
    /\ ret.returned # <<>>
    /\ \E i \in 1 .. Len(ret.fetched) : ret.fetched[i].id <= ret.old_lnid
    /\ \E i \in 1 .. Len(ret.fetched) : ret.fetched[i].id > last_nid(store, ret.tracker)

\* C3: the worker halts the dispatcher exactly in the cycle in which the failing
\* cycles in a row come to errors_treshold: a halt happens with that many, and a
\* failing cycle that does not halt leaves fewer.
C3_HaltsExactlyAtThreshold ==
    /\ last_cycle = "halt" => streak = _errors_treshold
    /\ last_cycle = "retry" => streak < _errors_treshold

\* C4: once the worker has halted on the threshold and the application has waited
\* for it (stop() has returned from joining it), the error that halted it has been
\* raised to the application. start() and run() return before the first cycle, and
\* no field of the dispatcher holds an exception, so a later call is the only way
\* the error can reach the caller.
C4_HaltErrorReachesCaller ==
    \A th \in ThreadIds :
       (dret.op = "stop.return" /\ dret.arg = th /\ is_GZException(threads[th].exc)) =>
          dret.raised = threads[th].exc

\* C5: a cycle that succeeds leaves the counter of consecutive errors at zero, and
\* the worker halts the dispatcher only when errors_treshold cycles or more have
\* failed in a row (counted over the dispatcher's life, across stop() and start()).
C5_SuccessResetsTheCounter ==
    /\ last_cycle = "ok" => _consecutive_errors = 0
    /\ last_cycle = "halt" => streak >= _errors_treshold

\* errors_treshold cycles or more have failed, with successes in between, and no
\* worker has halted the dispatcher: it is running and its last cycle succeeded.
C5_Witness ==
    /\ _errors >= _errors_treshold
    /\ _is_running
    /\ last_cycle = "ok"
    /\ \A th \in ThreadIds : ~is_GZException(threads[th].exc)

\* C9: start() (and run(), which is start()) on a running dispatcher raises
\* DispatcherIsRunningError and changes nothing: no Thread is created, _thread is
\* the same worker, the lists are the same, and the dispatcher is still running.
C9_StartWhileRunningRejected ==
    (dret.op \in {"start", "run"} /\ dret.was_running) =>
       /\ dret.raised = "DispatcherIsRunningError"
       /\ _is_running
       /\ DispatcherFields = dret.before

\* start() has been called on a running dispatcher whose worker is alive.
C9_Witness ==
    /\ dret.op = "start"
    /\ dret.was_running
    /\ _thread # 0
    /\ threads[_thread].pc # "done"

\* C10: on a running dispatcher add_tracker, remove_tracker, add_router and
\* remove_router all raise DispatcherIsRunningError and leave the lists alone; and
\* no step taken while the dispatcher is running changes the list of trackers or
\* the list of routers.
C10_ListsFrozenWhileRunning ==
    /\ [](( /\ dret.op \in {"add_tracker", "remove_tracker", "add_router", "remove_router"}
            /\ dret.was_running ) =>
             /\ dret.raised = "DispatcherIsRunningError"
             /\ DispatcherFields = dret.before)
    /\ [][_is_running => UNCHANGED <<_trackers, _routers>>]_vars

\* remove_tracker, of a registered tracker, has been called on a running dispatcher.
C10_Witness ==
    /\ dret.op = "remove_tracker"
    /\ dret.was_running
    /\ dret.raised = "DispatcherIsRunningError"
    /\ Len(_trackers) = 2

\* C11: start() on a dispatcher with no router or with no tracker raises
\* NoRoutersError (no router) or NoTrackersError (a router, no tracker) and
\* creates no Thread: the dispatcher is still not running and every field, the
\* workers included, is as before, so no cycle has run.
C11_StartNeedsRoutersAndTrackers ==
    ( /\ dret.op \in {"start", "run"}
      /\ (Len(dret.before[1]) = 0 \/ Len(dret.before[2]) = 0) ) =>
       /\ dret.raised = IF Len(dret.before[2]) = 0 THEN "NoRoutersError" ELSE "NoTrackersError"
       /\ ~_is_running
       /\ DispatcherFields = dret.before
       /\ \A th \in ThreadIds : threads[th].pc \in {"unborn", "done"}

\* start() has been called with a router registered and no tracker.
C11_Witness ==
    /\ dret.op = "start"
    /\ Len(_routers) > 0
    /\ Len(_trackers) = 0
    /\ dret.raised = "NoTrackersError"

\* C12: when stop() has returned the dispatcher is not running and no worker is
\* alive, so nothing polls a tracker or triggers an event until the next start();
\* and a worker that is inside a cycle leaves it only by finishing it (to the
\* sleep, or with the exception the cycle raised), whatever the flag is by then.
C12_StopWaitsForTheWorker ==
    /\ [](dret.op = "stop.return" =>
            /\ ~_is_running
            /\ \A th \in ThreadIds : threads[th].pc \in {"unborn", "done"})
    /\ [][\A th \in ThreadIds :
            (threads[th].pc = "cycle" /\ threads'[th].pc # "cycle") =>
               \/ threads'[th].pc = "sleep"
               \/ threads'[th].pc = "done" /\ threads'[th].exc # ""]_vars

\* stop() has returned after joining a worker that left the loop at the test of
\* the flag, its last cycle having succeeded.
C12_Witness ==
    /\ dret.op = "stop.return"
    /\ threads[dret.arg].exc = ""
    /\ last_cycle = "ok"

\* C13: run() runs the loop on the calling thread: when it has returned without
\* an error no Thread has been created and the dispatcher is not running.
C13_RunBlocksTheCaller ==
    (dret.op = "run" /\ dret.raised = "") =>
       /\ threads = dret.before[4]
       /\ ~_is_running

\* The place of a tracker in the dispatcher's list.
tracker_position(t) == CHOOSE i \in 1 .. Len(_trackers) : _trackers[i] = t

\* C14: a cycle polls the trackers in the order of the dispatcher's list, and its
\* trigger_event calls come tracker by tracker in that order and, for one
\* tracker, by ascending notice id: every call for an update comes before any
\* call for an update of the same tracker with a greater id.
C14_TrackersThenIdsInOrder ==
    cycle.ran =>
       /\ \A i \in 1 .. Len(cycle.batches) : cycle.batches[i].tracker = _trackers[i]
       /\ \A i, j \in 1 .. Len(cycle.triggered) :
             i < j =>
                LET first == cycle.triggered[i]
                    second == cycle.triggered[j]
                IN  /\ tracker_position(first.tracker) <= tracker_position(second.tracker)
                    /\ first.tracker = second.tracker => first.id <= second.id

\* A cycle in which both trackers reported updates of two notices and an
\* update was handed to two routers.
C14_Witness ==
    /\ cycle.ran
    /\ Len(cycle.batches) = 2
    /\ \A i \in 1 .. 2 : Len(cycle.batches[i].updates) = 2
    /\ \E i, j \in 1 .. Len(cycle.triggered) :
          /\ cycle.triggered[i].tracker = cycle.triggered[j].tracker
          /\ cycle.triggered[i].id = cycle.triggered[j].id
          /\ cycle.triggered[i].router # cycle.triggered[j].router

\* The event identifier of an update's kind: a notice with no earlier version is
\* new, one with no later version is deleted, any other is edited.
event_of_kind(update) ==
    IF update.old_notice = NoNotice THEN NoticeEvents_NEW
    ELSE IF update.new_notice = NoNotice THEN NoticeEvents_DELETED
    ELSE NoticeEvents_EDITED

\* How many of the cycle's trigger_event calls are this one.
times_triggered(call) ==
    Cardinality({i \in 1 .. Len(cycle.triggered) : cycle.triggered[i] = call})

\* C15: in a cycle that raised nothing, each update of each tracker's batch is
\* triggered exactly once on each router of the dispatcher whose namespaces hold
\* the event identifier of the update's kind, and never on any other router;
\* and no other trigger_event call is made.
C15_OncePerRouterOfTheEvent ==
    (cycle.ran /\ cycle.raised = "") =>
       /\ \A i \in 1 .. Len(cycle.batches) :
             \A k \in 1 .. Len(cycle.batches[i].updates) :
                LET update == cycle.batches[i].updates[k]
                IN  \A r \in RouterIds :
                       times_triggered([tracker |-> cycle.batches[i].tracker,
                                        id |-> update_id(update),
                                        event |-> event_of_kind(update), router |-> r])
                          = IF in_list(_routers, r) /\ event_of_kind(update) \in router_events(r)
                            THEN 1 ELSE 0
       /\ \A j \in 1 .. Len(cycle.triggered) :
             \E i \in 1 .. Len(cycle.batches) :
                \E k \in 1 .. Len(cycle.batches[i].updates) :
                   /\ cycle.triggered[j].tracker = cycle.batches[i].tracker
                   /\ cycle.triggered[j].id = update_id(cycle.batches[i].updates[k])
                   /\ cycle.triggered[j].event = event_of_kind(cycle.batches[i].updates[k])

\* A cycle that raised nothing in which an edit and a deletion were triggered on
\* the one router that routes notice events and not on the other.
C15_Witness ==
    /\ cycle.ran
    /\ cycle.raised = ""
    /\ Len(_routers) = 2
    /\ \E r \in RouterIds : NoticeEvents_NEW \notin router_events(r)
    /\ \E i, j \in 1 .. Len(cycle.triggered) :
          /\ cycle.triggered[i].event = NoticeEvents_EDITED
          /\ cycle.triggered[j].event = NoticeEvents_DELETED

C18_AddHandlerAppendsOnce ==
    rret.op = "add_handler" =>
       /\ ~rret.found => rret.raised = "EventNotExistsError"
       /\ (rret.found /\ rret.raised # "KeyError") =>
             LET handlers == _handlers[rret.router][rret.event]
             IN  IF ~in_list(rret.seen, rret.handler)
                 THEN /\ rret.raised = ""
                      /\ handlers = Append(rret.seen, rret.handler)
                 ELSE /\ rret.raised = IF rret.flag THEN "HandlerAlreadyRegisteredError"
                                       ELSE ""
                      /\ handlers = rret.seen

\* add_handler(h1, notice.new, raise_on_exist=False) has returned on a router
\* whose list of notice.new held h2 and h1.
C18_Witness ==
    /\ rret.op = "add_handler"
    /\ rret.handler = "h1"
    /\ ~rret.flag
    /\ rret.raised = ""
    /\ rret.seen = <<"h2", "h1">>

\* C19: in every state of a router the enums of event_enums are pairwise
\* disjoint and every key of _handlers is a member of exactly one of them.
C19_NamespacesDisjoint ==
    \A r \in RouterIds :
       /\ \A i, j \in 1 .. Len(event_enums[r]) :
             i # j => members(event_enums[r][i]) \cap members(event_enums[r][j]) = {}
       /\ \A event \in DOMAIN _handlers[r] :
             Cardinality({i \in 1 .. Len(event_enums[r]) :
                            event \in members(event_enums[r][i])}) = 1

\* C20: while a thread is inside trigger_event on a router, no step changes the
\* router's event_enums or _handlers.
C20_RegistryFrozenDuringTrigger ==
    [][\A r \in RouterIds :
          (\E t \in RouterThreads :
              rthreads[t].op = "trigger_event" /\ rthreads[t].router = r) =>
             /\ event_enums'[r] = event_enums[r]
             /\ _handlers'[r] = _handlers[r]]_vars

\* The id of the item an update is about: that of its new notice, or of its old
\* notice when there is no new one.
item_id(update) ==
    IF update.new_notice # NoNotice THEN update.new_notice.id ELSE update.old_notice.id

\* C23: the batch a get_updates() returns is in ascending order of item id,
\* whatever kinds of update it holds; a deleted update stands at the id of its
\* old notice.
C23_BatchAscendingById ==
    returned_ok("get_updates") =>
       \A i, j \in 1 .. Len(ret.updates) :
          i < j => item_id(ret.updates[i]) < item_id(ret.updates[j])

\* A get_updates() has returned an edited update of a notice with a higher id
\* than a deleted one and a lower id than a new one.
C23_Witness ==
    /\ returned_ok("get_updates")
    /\ \E i, j, k \in 1 .. Len(ret.updates) :
          /\ i < j /\ j < k
          /\ ret.updates[i].event = NoticeEvents_DELETED
          /\ ret.updates[j].event = NoticeEvents_EDITED
          /\ ret.updates[k].event = NoticeEvents_NEW

reported_new(updates) ==
    {item_id(updates[k]) : k \in {j \in 1 .. Len(updates) : updates[j].event = NoticeEvents_NEW}}

\* C22: a tracker constructed with ignore_old_notices on a storage with no
\* cursor has polled once in its constructor (the stored snapshot is what the
\* constructor fetched) and afterwards no get_updates() reports, and no
\* get_new() returns, a notice that existed at the construction and has not been
\* deleted since; constructed without ignore_old_notices on such a storage, its
\* first get_updates() that returns reports every such notice as new.
C22_OldNoticesIgnoredOrReported ==
    LET t == DefaultTrackerId
    IN  /\ (seed[t].mode = "ignored" /\ ret.op = "__init__") =>
              /\ polled[t] = Polled(notices(game_notices))
              /\ old_notices_of(store, t) = notices(game_notices)
        /\ (seed[t].mode = "ignored" /\ returned_ok("get_updates")) =>
              reported_new(ret.updates) \cap seed[t].existing = {}
        /\ (seed[t].mode = "ignored" /\ returned_ok("get_new")) =>
              ids_of(ret.returned) \cap seed[t].existing = {}
        /\ (seed[t].mode = "kept" /\ seed[t].polls = 1 /\ returned_ok("get_updates")) =>
              seed[t].existing \subseteq reported_new(ret.updates)

\* A get_updates() has returned, to a tracker constructed with
\* ignore_old_notices on a storage with no cursor, a new update beside two
\* notices that existed at the construction.
C22_Witness ==
    /\ seed[DefaultTrackerId].mode = "ignored"
    /\ returned_ok("get_updates")
    /\ Cardinality(seed[DefaultTrackerId].existing) >= 1
    /\ reported_new(ret.updates) # {}

\* The first get_updates() of a tracker constructed without ignore_old_notices
\* has reported the notices that existed at the construction as new.
C22_WitnessKept ==
    /\ seed[DefaultTrackerId].mode = "kept"
    /\ seed[DefaultTrackerId].polls = 1
    /\ returned_ok("get_updates")
    /\ seed[DefaultTrackerId].existing # {}

\* C21: a call that is between its reads and its writes finds the storage as it
\* read it (no other call has written in between), so the calls take effect one
\* after another; and the returned get_updates() batches, taken in in the order
\* of their return, fit one another (no change is reported twice) and, whenever
\* no call is inside the lock, add up to the stored snapshot (none is lost).
C21_PollsDoNotInterleave ==
    /\ \A th \in PollThreads : pollers[th].pc = "holding" => store = pollers[th].seen
    /\ \A th1, th2 \in PollThreads :
          (pollers[th1].pc = "holding" /\ pollers[th2].pc = "holding") => th1 = th2
    /\ view.clean
    /\ tracker_lock = "" =>
          view.notices = {notice_of(old_notices_of(store, DefaultTrackerId), id) :
                             id \in ids_of(old_notices_of(store, DefaultTrackerId))}

\* A thread is inside get_updates() with a fetch that differs from the snapshot
\* while the other waits for the lock to call get_updates() too, an earlier
\* batch having been returned.
C21_Witness ==
    /\ pollers["p1"].pc = "holding"
    /\ pollers["p1"].op = "get_updates"
    /\ pollers["p1"].fetched # old_notices_of(store, DefaultTrackerId)
    /\ pollers["p2"].pc = "waiting"
    /\ pollers["p2"].op = "get_updates"
    /\ view.notices # {}

\* C25: on every storage class, a get(k) made right after set(k, v) has returned
\* returns a value equal to v, for every value v of the storage contract and
\* whatever k held before.
C25_GetAfterSetReturnsTheValue ==
    (sret.op = "get" /\ sret.after = "set" /\ supported(sret.value)) =>
       (sret.raised = "" /\ sret.result = sret.value)

\* A SQLiteStorage has returned the dict {"x": [b"x"]} that was just set over
\* another value.
C25_Witness ==
    /\ storage_class = "SQLiteStorage"
    /\ sret.op = "get" /\ sret.after = "set"
    /\ sret.value.type = "dict"
    /\ sret.result = sret.value
    /\ \E key \in TestKeys \ {sret.key} : _store[key] # Absent

\* C26: get(k) returns None for a key that was never set and for a key that
\* was just unset, and unset(k) of a key the storage does not hold returns
\* without an error and leaves what the storage holds as it was.
C26_AbsentKeys ==
    /\ [](( /\ sret.op = "get" /\ sret.raised = ""
            /\ (sret.key \notin ever_set \/ sret.after = "unset") )
             => sret.result = PyNone)
    /\ [][( /\ sret'.op = "unset"
            /\ _store[sret'.key] = Absent
            /\ ~_is_closed )
             => (sret'.raised = "" /\ _store' = _store)]_vars

\* A LevelDBStorage that holds another key has returned None for a key that
\* was set and then unset.
C26_Witness ==
    /\ storage_class = "LevelDBStorage"
    /\ sret.op = "get" /\ sret.after = "unset" /\ sret.raised = ""
    /\ sret.key \in ever_set
    /\ sret.result = PyNone
    /\ \E key \in TestKeys : _store[key] # Absent

\* An unset() of a key that was never set has returned, and the get() after it
\* returned None.
C26_WitnessNeverSet ==
    /\ sret.op = "get" /\ sret.after = "unset" /\ sret.raised = ""
    /\ sret.key \notin ever_set
    /\ sret.result = PyNone
    /\ ever_set # {}

\* C27: once close() was called, closed reads True, and every get, set, unset
\* and exists (of a value of the contract) raises StorageOperationError.
C27_ClosedStorageRefusesCalls ==
    _is_closed =>
       /\ sret.op = "closed" => sret.result = PyTrue
       /\ (sret.op \in StorageOps /\ supported(sret.value)) =>
             sret.raised = "StorageOperationError"

\* C28: whatever get, set, unset and exists raise is StorageOperationError.
C28_OnlyStorageOperationError ==
    (sret.op \in StorageOps /\ sret.raised # "") => sret.raised = "StorageOperationError"

\* C29: while the dispatcher is running, no handler list of a router that is
\* registered with it changes.
C29_HandlersFrozenWhileRunning ==
    [][\A r \in RouterIds :
          (_is_running /\ in_list(_routers, r)) => _handlers'[r] = _handlers[r]]_vars

\* C30: a stop() called on a running dispatcher returns in the end, with the
\* dispatcher stopped, and no worker enters a new cycle while stop() waits: the
\* wait is for the cycle in flight and the sleep after it.
C30_StopReturns ==
    /\ \A c \in MainCallers :
          (callers[c].pc = "join" /\ dret.op = "stop" /\ dret.was_running)
             ~> (callers[c].pc = "idle" /\ dret.op = "stop.return" /\ ~_is_running)
    /\ [][(\E c \in MainCallers : callers[c].pc = "join") =>
             \A th \in ThreadIds : ~(threads[th].pc = "loop" /\ threads'[th].pc = "cycle")]_vars

\* stop() has returned after it was called on a running dispatcher whose
\* worker was inside a cycle.
C30_Witness ==
    /\ dret.op = "stop.return"
    /\ ~_is_running
    /\ \E th \in ThreadIds : threads[th].pc = "done" /\ last_cycle = "ok"

\* C35: every run of the dispatcher begins with _consecutive_errors at zero, and
\* while the dispatcher is running the counter is below errors_treshold.
C35_RunsBeginAtZero ==
    /\ (dret.op \in {"start", "run"} /\ dret.raised = "") => _consecutive_errors = 0
    /\ _is_running => _consecutive_errors < _errors_treshold

\* C33: whenever the dispatcher reports running, one of its workers is alive.
C33_RunningHasAWorker ==
    _is_running => \E th \in ThreadIds : is_alive(th)

\* C34: at most one worker of the dispatcher is inside a poll cycle at any time.
C34_AtMostOneWorkerPolls ==
    Cardinality({th \in ThreadIds : threads[th].pc = "cycle"}) <= 1

\* C36: a get_updates() that raises leaves the stored cursor and the stored
\* snapshot as they were before the call.
C36_FailedPollLeavesTheStore ==
    (ret.op = "get_updates" /\ ret.raised # "") => store = ret.old_store

\* C37: on a durable storage that an earlier tracker of the same key has seeded
\* (its poll stored the snapshot), the constructor polls nothing: it returns and
\* leaves the storage as it found it.
C37_SeededStorageIsNotPolledAgain ==
    ( /\ backend = "bytes"
      /\ ret.op = "__init__"
      /\ storage_get(ret.old_store, nlist_key(ret.tracker)).tag # "None" )
       => (ret.raised = "" /\ store = ret.old_store)

\* C38: an add_handler or a remove_handler that raises leaves every handler
\* list of the router as it was before the call.
C38_RaisingCallChangesNothing ==
    [][(rret'.op \in {"add_handler", "remove_handler"} /\ rret'.raised # "")
          => _handlers' = _handlers]_vars

\* C39: no thread that runs a handler inside trigger_event stays in the acquire
\* of the router's lock: the call the handler makes on its router completes.
C39_NestedCallsComplete ==
    \A t \in RouterThreads : rthreads[t].pc # "blocked"


\* The ids of the platform's notices above a cursor, ascending.
ids_above(response, lnid) ==
    LET above == SelectSeq(notices(response), LAMBDA notice : notice.id > lnid)
    IN  [i \in 1 .. Len(above) |-> above[i].id]

\* C40: while the platform's notices stay the same, a run of get_new(limit=k)
\* calls with k >= 1 has returned, call after call, the first ids above the
\* cursor the run began with, each once and in ascending order; a call of the
\* run that returns nothing comes only when all of them have been returned, and
\* it leaves the cursor where it was.
C40_GetNewDrainsInOrder ==
    got.running =>
        LET due == ids_above(game_notices, got.from)
        IN  /\ Len(got.ids) <= Len(due)
            /\ got.ids = SubSeq(due, 1, Len(got.ids))
            /\ (ret.op = "get_new" /\ ret.returned = <<>>) =>
                   /\ got.ids = due
                   /\ last_nid(store, ret.tracker) = ret.old_lnid
C40_Witness ==
    /\ got.running
    /\ Len(got.ids) >= 2
    /\ ret.op = "get_new" /\ ret.limit = 1 /\ ret.returned = <<>>
    /\ got.ids = ids_above(game_notices, got.from)


\* C31: the worker never holds the lock of a tracker together with the lock of
\* a router; while trigger_event runs it holds the lock of the router it called
\* and no other; and when the first update of a batch is about to be passed to a
\* router, the tracker's lock has been released.
C31_TrackerLockReleasedBeforeRouters ==
    LET router_locks == {r \in RouterIds : _lock[r] = "worker"}
    IN  /\ router_locks # {} => worker.locked = {}
        /\ worker.pc = "in_trigger_event" =>
              /\ router_locks = {Head(worker.routers)}
              /\ worker.locked = {}
        /\ worker.pc = "for_event" => (worker.locked = {} /\ router_locks = {})
C31_Witness ==
    /\ worker.pc = "in_trigger_event"
    /\ Len(worker.events) >= 2
    /\ Len(worker.trackers) = 2
    /\ _lock[Head(worker.routers)] = "worker"


\* C32: a cycle that is aborted by an exception (of a handler, of a router or of
\* a later tracker's fetch) leaves the cursor and the snapshot of every tracker
\* as the polls of the cycle wrote them, and as long as the platform's notices
\* stay the same no update of an aborted batch is in a batch of a later cycle,
\* so none is passed to a router again.
C32_AbortedCycleIsNotRolledBack ==
    /\ [](worker.polls \cap worker.aborted_updates = {})
    /\ [][(worker.pc # "" /\ worker'.pc = "" /\ last_cycle' # "ok") =>
             \A t \in TrackerIds :
                /\ last_nid(store', t) = last_nid(store, t)
                /\ old_notices_of(store', t) = old_notices_of(store, t)]_vars
C32_Witness ==
    /\ worker.aborted_updates # {}
    /\ \A t \in TrackerIds : \E u \in worker.aborted_updates : u.tracker = t
    /\ worker.pc = "for_tracker"
    /\ worker.trackers = <<>>
    /\ game_notices # {}

====
